---- MODULE Spec2Model ----
(***************************************************************************)
(* RGPD Sentinel: detection of personal data in extracted text             *)
(* (analyzer/core.py, analyzer/validators.py), risk scoring, the           *)
(* exclusion-list settings of app.py and the batch loops of                *)
(* analyzer/background_task.py.                                            *)
(*                                                                         *)
(* A text is a sequence of one-character strings.  Offsets are 0-based as  *)
(* in the Python source: Slice(s, a, b) is s[a:b].  Confidences and risk   *)
(* values are exact decimals kept as integers (hundredths); binary         *)
(* floating-point rounding is not modelled.                                *)
(***************************************************************************)
EXTENDS Integers, Sequences, FiniteSets, TLC

(***************************************************************************)
(* Characters and the str methods the source uses                          *)
(***************************************************************************)
AsciiLower == {"a","b","c","d","e","f","g","h","i","j","k","l","m",
               "n","o","p","q","r","s","t","u","v","w","x","y","z"}
AsciiUpper == {"A","B","C","D","E","F","G","H","I","J","K","L","M",
               "N","O","P","Q","R","S","T","U","V","W","X","Y","Z"}
Digits == {"0","1","2","3","4","5","6","7","8","9"}
AccentLower == {"à","â","ç","é","è","ê","ë","î","ï","ô","ù","û","ÿ"}
AccentUpper == {"À","Â","Ç","É","È","Ê","Ë","Î","Ï","Ô","Ù","Û"}
AsciiLetters == AsciiLower \cup AsciiUpper
AsciiAlNum == AsciiLetters \cup Digits
\* \w of a str pattern: Unicode letters, digits and the underscore
WordChars == AsciiAlNum \cup AccentLower \cup AccentUpper \cup {"_"}
\* \s
Spaces == {" ", "\n", "\t"}
\* the range À-ÿ of the address patterns
LatinRange == AccentLower \cup AccentUpper

CaseMap ==
  "A" :> "a" @@ "B" :> "b" @@ "C" :> "c" @@ "D" :> "d" @@ "E" :> "e" @@ "F" :> "f" @@
  "G" :> "g" @@ "H" :> "h" @@ "I" :> "i" @@ "J" :> "j" @@ "K" :> "k" @@ "L" :> "l" @@
  "M" :> "m" @@ "N" :> "n" @@ "O" :> "o" @@ "P" :> "p" @@ "Q" :> "q" @@ "R" :> "r" @@
  "S" :> "s" @@ "T" :> "t" @@ "U" :> "u" @@ "V" :> "v" @@ "W" :> "w" @@ "X" :> "x" @@
  "Y" :> "y" @@ "Z" :> "z" @@ "À" :> "à" @@ "Â" :> "â" @@ "Ç" :> "ç" @@ "É" :> "é" @@
  "È" :> "è" @@ "Ê" :> "ê" @@ "Ë" :> "ë" @@ "Î" :> "î" @@ "Ï" :> "ï" @@ "Ô" :> "ô" @@
  "Ù" :> "ù" @@ "Û" :> "û"

\* str.lower()
Lower(s) == [i \in 1..Len(s) |-> IF s[i] \in DOMAIN CaseMap THEN CaseMap[s[i]] ELSE s[i]]

\* The element of a one-element set.  Only({e(v) : v \in {x}}) is e(x) with x
\* evaluated once and named v, as a local variable of the code is.
Only(S) == CHOOSE v \in S : TRUE

\* s[a:b]
Slice(s, a, b) == SubSeq(s, a + 1, b)

\* s.startswith(p)
StartsWith(s, p) == Len(p) <= Len(s) /\ SubSeq(s, 1, Len(p)) = p

\* the offsets at which sub occurs in s
Occurrences(s, sub) ==
  {i \in 0..(Len(s) - Len(sub)) : SubSeq(s, i + 1, i + Len(sub)) = sub}

\* sub in s
Contains(s, sub) == Occurrences(s, sub) /= {}

\* s.find(sub, start): the lowest offset >= start, or -1
Find(s, sub, start) ==
  LET occ == {i \in Occurrences(s, sub) : i >= start}
  IN IF occ = {} THEN -1 ELSE CHOOSE i \in occ : \A j \in occ : i <= j

\* s.count(sub): the number of non-overlapping occurrences, scanning from the left
Count(s, sub) ==
  LET RECURSIVE CountFrom(_)
      CountFrom(start) ==
        LET i == Find(s, sub, start)
        IN IF i = -1 THEN 0 ELSE 1 + CountFrom(i + Len(sub))
  IN CountFrom(0)

\* s.strip()
Strip(s) ==
  LET inner == {i \in 1..Len(s) : s[i] \notin Spaces}
      first == CHOOSE i \in inner : \A j \in inner : i <= j
      last == CHOOSE i \in inner : \A j \in inner : j <= i
  IN IF inner = {} THEN <<>> ELSE SubSeq(s, first, last)

\* s.split(): the maximal runs of non-space characters
Split(s) ==
  LET starts == {i \in 1..Len(s) : s[i] \notin Spaces /\ (i = 1 \/ s[i - 1] \in Spaces)}
      ends == {i \in 1..Len(s) : s[i] \notin Spaces /\ (i = Len(s) \/ s[i + 1] \in Spaces)}
      nth(set, k) == CHOOSE i \in set : Cardinality({j \in set : j < i}) = k - 1
  IN [k \in 1..Cardinality(starts) |-> SubSeq(s, nth(starts, k), nth(ends, k))]

\* s.isupper(): at least one cased character and no lowercase one
IsUpper(s) ==
  /\ \E i \in 1..Len(s) : s[i] \in AsciiUpper \cup AccentUpper
  /\ \A i \in 1..Len(s) : s[i] \notin AsciiLower \cup AccentLower

\* the text of a digit string as a number modulo m (int(s) % m)
RECURSIVE IntMod(_, _, _)
IntMod(s, m, acc) ==
  IF s = <<>> THEN acc
  ELSE IntMod(Tail(s), m, (acc * 10 + (CHOOSE d \in 0..9 : ToString(d) = s[1])) % m)


(***************************************************************************)
(* Regular expressions (Python re, backtracking order).  A pattern is a    *)
(* record; Ends(r, s, i) is the sequence of offsets at which a match of r  *)
(* that starts at offset i of s can end, in the order in which the         *)
(* backtracking matcher tries them (greedy repetition first).              *)
(***************************************************************************)
Cls(cs) == [t |-> "cls", cs |-> cs]
\* [^...]
NotCls(cs) == [t |-> "ncls", cs |-> cs]
Lit(str) == [t |-> "lit", s |-> str]
Cat(rs) == [t |-> "cat", rs |-> rs]
Alt(rs) == [t |-> "alt", rs |-> rs]
\* r{lo,hi}; hi = -1 stands for no upper limit
Rep(r, lo, hi) == [t |-> "rep", r |-> r, lo |-> lo, hi |-> hi]
Opt(r) == Rep(r, 0, 1)
\* \b
WB == [t |-> "wb"]

IsWordAt(s, k) == k >= 1 /\ k <= Len(s) /\ s[k] \in WordChars

\* whether the one-character pattern r (a class or a negated class) accepts c
Accepts(r, c) == IF r.t = "cls" THEN c \in r.cs ELSE c \notin r.cs

\* the length of the longest run of characters r accepts from offset i, at most hi
RunLen(s, i, r, hi) ==
  LET stops == {j \in i..(Len(s) - 1) : ~Accepts(r, s[j + 1])}
      stop == IF stops = {} THEN Len(s) ELSE CHOOSE j \in stops : \A k \in stops : j <= k
  IN IF hi /= -1 /\ stop - i > hi THEN hi ELSE stop - i

RECURSIVE Ends(_, _, _)
RECURSIVE EndsFrom(_, _, _)
RECURSIVE CatEnds(_, _, _, _)
RECURSIVE AltEnds(_, _, _, _)
RECURSIVE RepEnds(_, _, _, _)
RECURSIVE RepFrom(_, _, _, _)

\* the ends of r from each start of starts, in order
EndsFrom(r, s, starts) ==
  IF starts = <<>> THEN <<>>
  ELSE IF Len(starts) = 1 THEN Ends(r, s, starts[1])
  ELSE LET h == Len(starts) \div 2
       IN EndsFrom(r, s, SubSeq(starts, 1, h)) \o EndsFrom(r, s, SubSeq(starts, h + 1, Len(starts)))

CatEnds(rs, k, s, starts) ==
  IF k > Len(rs) \/ starts = <<>> THEN starts
  ELSE CatEnds(rs, k + 1, s, EndsFrom(rs[k], s, starts))

AltEnds(rs, k, s, i) ==
  IF k > Len(rs) THEN <<>> ELSE Ends(rs[k], s, i) \o AltEnds(rs, k + 1, s, i)

RepFrom(r, n, s, starts) ==
  IF starts = <<>> THEN <<>>
  ELSE IF Len(starts) = 1 THEN RepEnds(r, n, s, starts[1])
  ELSE LET h == Len(starts) \div 2
       IN RepFrom(r, n, s, SubSeq(starts, 1, h)) \o RepFrom(r, n, s, SubSeq(starts, h + 1, Len(starts)))

\* n repetitions are done and the next one would start at offset i
RepEnds(r, n, s, i) ==
  LET next == IF r.hi /= -1 /\ n >= r.hi THEN <<>>
              ELSE SelectSeq(Ends(r.r, s, i), LAMBDA j : j > i)
  IN RepFrom(r, n + 1, s, next) \o (IF n >= r.lo THEN <<i>> ELSE <<>>)

Ends(r, s, i) ==
  CASE r.t \in {"cls", "ncls"} ->
         IF i < Len(s) /\ Accepts(r, s[i + 1]) THEN <<i + 1>> ELSE <<>>
    [] r.t = "lit" -> IF i + Len(r.s) <= Len(s) /\ SubSeq(s, i + 1, i + Len(r.s)) = r.s
                      THEN <<i + Len(r.s)>> ELSE <<>>
    [] r.t = "wb"  -> IF IsWordAt(s, i) /= IsWordAt(s, i + 1) THEN <<i>> ELSE <<>>
    [] r.t = "cat" -> CatEnds(r.rs, 1, s, <<i>>)
    [] r.t = "alt" -> AltEnds(r.rs, 1, s, i)
    [] r.t = "rep" ->
         IF r.r.t \in {"cls", "ncls"}
         THEN LET n == RunLen(s, i, r.r, r.hi)
              IN IF n < r.lo THEN <<>> ELSE [k \in 1..(n - r.lo + 1) |-> i + n - k + 1]
         ELSE RepEnds(r, 0, s, i)

\* the first match of r from each offset of s where r matches: the offsets
\* [from, to) of the match the matcher finds first when it starts at from
Candidates(r, s) ==
  UNION {{[from |-> j, to |-> ends[1]] : ends \in {Ends(r, s, j)} \ {<<>>}} : j \in 0..Len(s)}

\* the scan of finditer over the candidates cands from offset i on: the leftmost
\* candidate is a match, and the scan resumes at its end (one further when the
\* match is empty)
RECURSIVE Scan(_, _)
Scan(cands, i) ==
  IF \A c \in cands : c.from < i THEN <<>>
  ELSE Only({<<m>> \o Scan(cands, IF m.to > m.from THEN m.to ELSE m.from + 1) :
              m \in {c \in cands : /\ c.from >= i
                                   /\ \A n \in cands : n.from >= i => c.from <= n.from}})

\* the non-overlapping matches of r in s from offset i on, leftmost first
Matches(r, s, i) == Only({Scan(cands, i) : cands \in {Candidates(r, s)}})

\* pattern.findall(s) of a pattern without capturing group: the matched substrings
FindAll(r, s) ==
  Only({[k \in 1..Len(ms) |-> Slice(s, ms[k].from, ms[k].to)] : ms \in {Matches(r, s, 0)}})

\* pattern.search(s): the first match, or <<>> when there is none
Search(r, s) ==
  Only({IF ms = <<>> THEN <<>> ELSE <<ms[1]>> : ms \in {Matches(r, s, 0)}})

\* re.match(r, s) with r ending in $: r matches from offset 0 to the end of s
\* ($ also matches before one trailing newline)
FullMatch(r, s) ==
  \E ends \in {Ends(r, s, 0)} :
    \E k \in 1..Len(ends) :
       ends[k] = Len(s) \/ (ends[k] = Len(s) - 1 /\ s[Len(s)] = "\n")

Sep == {" ", ".", "-"}
D19 == Digits \ {"0"}

EMAIL_REGEX ==
  Cat(<<WB, Cls(AsciiAlNum), Rep(Cls(AsciiAlNum \cup {".", "_", "%", "+", "-"}), 0, 63),
        Lit(<<"@">>),
        Rep(Cat(<<Rep(Cls(AsciiAlNum \cup {"-"}), 1, 63), Lit(<<".">>)>>), 1, 8),
        Rep(Cls(AsciiLetters), 2, 63), WB>>)

PHONE_REGEX ==
  Cat(<<WB,
        Alt(<<Cat(<<Alt(<<Lit(<<"+">>), Lit(<<"0","0">>)>>), Lit(<<"3","3">>), Opt(Cls(Sep)),
                    Opt(Cat(<<Lit(<<"(","0",")">>), Opt(Cls(Sep))>>))>>),
              Lit(<<"0">>)>>),
        Cls(D19),
        Rep(Cat(<<Opt(Cls(Sep)), Rep(Cls(Digits), 2, 2)>>), 4, 4),
        WB>>)

\* the two capturing groups are the month and the century: see DateFindAll
DATE_REGEX ==
  Cat(<<WB,
        Alt(<<Cat(<<Lit(<<"0">>), Cls(D19)>>), Cat(<<Cls({"1", "2"}), Cls(Digits)>>),
              Cat(<<Lit(<<"3">>), Cls({"0", "1"})>>)>>),
        Cls({"-", "/", "."}),
        Alt(<<Cat(<<Lit(<<"0">>), Cls(D19)>>), Cat(<<Lit(<<"1">>), Cls({"0", "1", "2"})>>)>>),
        Cls({"-", "/", "."}),
        Alt(<<Lit(<<"1","9">>), Lit(<<"2","0">>)>>),
        Rep(Cls(Digits), 2, 2), WB>>)

SECU_REGEX ==
  Cat(<<WB, Cls({"1", "2", "3"}), Rep(Cls(Digits), 2, 2),
        Alt(<<Cat(<<Lit(<<"0">>), Cls(D19)>>), Cat(<<Lit(<<"1">>), Cls({"0", "1", "2"})>>)>>),
        Alt(<<Cat(<<Lit(<<"0">>), Cls(D19)>>), Cat(<<Cls({"1", "2"}), Cls(Digits)>>),
              Cat(<<Lit(<<"3">>), Cls({"0", "1"})>>),
              Cat(<<Cls({"2", "4", "6", "8"}), Cls({"0", "2", "4", "6", "8"})>>),
              Cat(<<Cls({"1", "3", "5", "7", "9"}), Cls({"1", "3", "5", "7", "9"})>>)>>),
        Rep(Cls(Digits), 6, 6), Opt(Rep(Cls(Digits), 2, 2)), WB>>)

SIRET_REGEX == Cat(<<WB, Rep(Cls(Digits), 14, 14), WB>>)

StreetChars == AsciiLetters \cup LatinRange \cup {"'", "-", "."} \cup Spaces

POSTAL_ADDRESS_REGEX ==
  Cat(<<WB, Rep(Cls(Digits), 1, 4), Rep(Cls({","} \cup Spaces), 1, -1),
        Rep(Cls(StreetChars), 1, -1), Rep(Cls({","} \cup Spaces), 1, -1),
        Rep(Cls(Digits), 5, 5),
        Opt(Cat(<<Rep(Cls(Spaces), 1, -1), Rep(Cls(StreetChars), 1, -1)>>)), WB>>)

Octet ==
  Alt(<<Cat(<<Lit(<<"2","5">>), Cls({"0", "1", "2", "3", "4", "5"})>>),
        Cat(<<Lit(<<"2">>), Cls({"0", "1", "2", "3", "4"}), Cls(Digits)>>),
        Cat(<<Opt(Cls({"0", "1"})), Cls(Digits), Opt(Cls(Digits))>>)>>)

IP_ADDRESS_REGEX ==
  Cat(<<WB, Rep(Cat(<<Octet, Lit(<<".">>)>>), 3, 3), Octet, WB>>)

\* DATE_REGEX.findall(s): with two groups, findall returns for each match the
\* pair (month, century) and not the matched date
DateFindAll(s) ==
  Only({[k \in 1..Len(ms) |-> <<Slice(s, ms[k].from + 3, ms[k].from + 5),
                                Slice(s, ms[k].from + 6, ms[k].from + 8)>>] :
        ms \in {Matches(DATE_REGEX, s, 0)}})
(***************************************************************************)
(* config/exclusion_lists.py as the analyzer modules bind it at import     *)
(***************************************************************************)
EXCLUDED_PERSONS ==
  <<<<"J","o","h","n"," ","D","o","e">>, <<"D","o","e">>, <<"J","o","h","n">>, <<"J","a","n","e"," ","S","m","i","t","h">>, <<"S","m","i","t","h">>, <<"J","a","n","e">>,
    <<"R","o","b","e","r","t"," ","J","o","h","n","s","o","n">>, <<"J","o","h","n","s","o","n">>, <<"R","o","b","e","r","t">>, <<"E","m","i","l","y"," ","D","a","v","i","s">>, <<"D","a","v","i","s">>, <<"E","m","i","l","y">>,
    <<"M","i","c","h","a","e","l"," ","W","i","l","s","o","n">>, <<"W","i","l","s","o","n">>, <<"M","i","c","h","a","e","l">>, <<"S","a","r","a","h"," ","B","r","o","w","n">>, <<"B","r","o","w","n">>, <<"S","a","r","a","h">>,
    <<"D","a","v","i","d"," ","M","i","l","l","e","r">>, <<"M","i","l","l","e","r">>, <<"D","a","v","i","d">>>>

PROFESSIONAL_CONTEXT ==
  <<<<"d","i","r","e","c","t","e","u","r">>, <<"d","g">>, <<"r","e","s","p","o","n","s","a","b","l","e">>, <<"c","h","e","f">>, <<"m","a","n","a","g","e","r">>,
    <<"s","i","g","n","é">>, <<"s","i","g","n","a","t","u","r","e">>, <<"c","o","n","t","a","c","t">>, <<"c","o","o","r","d","o","n","n","é","e","s">>,
    <<"r","é","f","é","r","e","n","t">>, <<"c","h","a","r","g","é"," ","d","e">>, <<"a","d","m","i","n","i","s","t","r","a","t","e","u","r">>, <<"e","m","p","l","o","y","é">>,
    <<"s","e","r","v","i","c","e">>, <<"d","é","p","a","r","t","e","m","e","n","t">>, <<"c","o","l","l","è","g","u","e">>, <<"é","q","u","i","p","e">>,
    <<"s","a","l","a","r","i","é">>, <<"p","o","s","t","e">>, <<"f","o","n","c","t","i","o","n">>, <<"t","e","c","h","n","i","c","i","e","n">>, <<"i","n","f","o","r","m","a","t","i","q","u","e">>>>

TEMPLATE_INDICATORS ==
  <<<<"e","x","e","m","p","l","e">>, <<"m","o","d","è","l","e">>, <<"t","e","m","p","l","a","t","e">>, <<"l","i","b","e","l","l","é">>, <<"d","é","m","o","n","s","t","r","a","t","i","o","n">>,
    <<"t","e","s","t">>, <<"f","o","r","m","a","t","i","o","n">>, <<"d","o","c","u","m","e","n","t","a","t","i","o","n">>, <<"m","a","n","u","e","l">>,
    <<"p","l","a","c","e","h","o","l","d","e","r">>, <<"s","a","m","p","l","e">>, <<"g","u","i","d","e">>, <<"i","n","s","t","r","u","c","t","i","o","n">>>>

ORGANIZATION_UNITS ==
  <<<<"A","C","M","E">>, <<"S","e","r","v","i","c","e"," ","C","l","i","e","n","t","s">>, <<"S","e","r","v","i","c","e"," ","T","e","c","h","n","i","q","u","e">>, <<"R","e","s","s","o","u","r","c","e","s"," ","H","u","m","a","i","n","e","s">>,
    <<"S","e","r","v","i","c","e"," ","J","u","r","i","d","i","q","u","e">>, <<"S","e","r","v","i","c","e"," ","I","n","f","o","r","m","a","t","i","q","u","e">>, <<"S","e","r","v","i","c","e"," ","C","o","m","p","t","a","b","i","l","i","t","é">>,
    <<"D","i","r","e","c","t","i","o","n"," ","G","é","n","é","r","a","l","e">>>>

\* any(term in s for term in terms)
AnyIn(terms, s) == \E k \in 1..Len(terms) : Contains(s, terms[k])

\* the number of terms of the list that occur in s
HowManyIn(terms, s) == Cardinality({k \in 1..Len(terms) : Contains(s, terms[k])})

(***************************************************************************)
(* analyzer/validators.py                                                  *)
(***************************************************************************)
validate_email(email) ==
  /\ email /= <<>>
  /\ Len(email) <= 254
  /\ FullMatch(Cat(<<Cls(AsciiAlNum), Rep(NotCls({"@"}), 0, -1), Lit(<<"@">>),
                     Rep(NotCls({"@"}), 1, -1), Lit(<<".">>), Rep(NotCls({"@"}), 1, -1)>>),
               email)
  /\ ~AnyIn(<<<<"@","o","g","f","a",".">>, <<"o","g","f","a","@">>>>, Lower(email))

\* re.sub(r'[\s.\-_()]', '', phone)
CleanPhone(phone) == SelectSeq(phone, LAMBDA c : c \notin Spaces \cup {".", "-", "_", "(", ")"})

validate_phone(phone) ==
  LET cleaned == CleanPhone(phone)
      d8 == Rep(Cls(Digits), 8, 8)
      d7 == Rep(Cls(Digits), 7, 7)
  IN IF StartsWith(cleaned, <<"0">>) /\ Len(cleaned) = 10
     THEN FullMatch(Cat(<<Lit(<<"0">>), Cls(D19), d8>>), cleaned)
     ELSE IF StartsWith(cleaned, <<"+","3","3">>)
     THEN IF Len(cleaned) = 11
          THEN FullMatch(Cat(<<Lit(<<"+","3","3">>), Cls(D19), d8>>), cleaned)
          ELSE IF Len(cleaned) = 12 /\ cleaned[4] = "0"
          THEN FullMatch(Cat(<<Lit(<<"+","3","3","0">>), Cls(D19), d7>>), cleaned)
          ELSE FALSE
     ELSE IF StartsWith(cleaned, <<"0","0","3","3">>)
     THEN IF Len(cleaned) = 12
          THEN FullMatch(Cat(<<Lit(<<"0","0","3","3">>), Cls(D19), d8>>), cleaned)
          ELSE IF Len(cleaned) = 13 /\ cleaned[5] = "0"
          THEN FullMatch(Cat(<<Lit(<<"0","0","3","3","0">>), Cls(D19), d7>>), cleaned)
          ELSE FALSE
     ELSE FALSE

\* re.split(r'[/-.]', date_str) raises re.error: "/-." is a range from "/"
\* (0x2F) down to "." (0x2E), which re refuses when it compiles the pattern.
\* The bare except of validate_date turns the error into False.
DateSplitRaises == TRUE

validate_date(date_str) ==
  IF date_str = <<>> THEN FALSE
  ELSE IF DateSplitRaises THEN FALSE
  ELSE TRUE

validate_secu(secu) ==
  IF secu = <<>> THEN FALSE
  ELSE IF ~FullMatch(Cat(<<Cls({"1", "2", "3"}), Rep(Cls(Digits), 13, 13)>>), secu)
  THEN FullMatch(Cat(<<Cls({"1", "2", "3"}), Rep(Cls(Digits), 12, 12)>>), secu)
  ELSE \* int(secu[:13]), int(secu[13:]); a trailing newline let through by $ is
       \* accepted by int()
       LET digits == Strip(secu)
           numero == IntMod(Slice(digits, 0, 13), 97, 0)
           cle == IntMod(Slice(digits, 13, Len(digits)), 100, 0)
       IN cle = 97 - numero

\* the Luhn sum with the doubling on the other digits (the rightmost one first)
validate_siret_shifted(siret) ==
  IF siret = <<>> \/ Len(siret) /= 14 THEN FALSE
  ELSE IF \E i \in 1..14 : siret[i] \notin Digits THEN FALSE
  ELSE LET n(i) ==
             LET d == IntMod(<<siret[14 - i]>>, 10, 0)
             IN IF i % 2 = 0 THEN (IF 2 * d > 9 THEN 2 * d - 9 ELSE 2 * d) ELSE d
           RECURSIVE total(_)
           total(i) == IF i = 14 THEN 0 ELSE n(i) + total(i + 1)
       IN total(0) % 10 = 0

validate_siret(siret) ==
  IF siret = <<>> \/ Len(siret) /= 14 THEN FALSE
  ELSE IF \E i \in 1..14 : siret[i] \notin Digits THEN FALSE
  ELSE LET n(i) == \* i counts from 0 at the rightmost digit
             LET d == IntMod(<<siret[14 - i]>>, 10, 0)
             IN IF i % 2 = 1 THEN (IF 2 * d > 9 THEN 2 * d - 9 ELSE 2 * d) ELSE d
           RECURSIVE total(_)
           total(i) == IF i = 14 THEN 0 ELSE n(i) + total(i + 1)
       IN total(0) % 10 = 0

\* analyze_name_context of validators.py: the score, in hundredths
analyze_name_context(name, text) ==
  Only({
  LET start == IF name_pos - 100 > 0 THEN name_pos - 100 ELSE 0
      end == IF name_pos + Len(name) + 100 < Len(text)
             THEN name_pos + Len(name) + 100 ELSE Len(text)
      titles == <<<<"m",".">>, <<"m","m","e",".">>, <<"m","r",".">>, <<"d","r",".">>, <<"m","o","n","s","i","e","u","r">>, <<"m","a","d","a","m","e">>,
                  <<"d","o","c","t","e","u","r">>, <<"p","r","o","f",".">>, <<"p","r","o","f","e","s","s","e","u","r">>>>
      score(context) == 15 * HowManyIn(PROFESSIONAL_CONTEXT, context)
                        + 10 * HowManyIn(titles, context)
                        + 20 * HowManyIn(TEMPLATE_INDICATORS, context)
  IN IF name_pos = -1 THEN 0
     ELSE Only({IF context_score > 100 THEN 100 ELSE context_score :
                context_score \in {Only({score(context) :
                                         context \in {Lower(Slice(text, start, end))}})}})
  : name_pos \in {Find(Lower(text), Lower(name), 0)}})

\* the characters that exclude a name
NameSymbols ==
  {"@", "#", "$", "%", "*", "+", "=", "_", "|", "<", ">", "{", "}", "[", "]", "^", "/", "\\"}

\* the penalty counted from the excess over 3 occurrences only
repetition_penalty_beyond(occurrences) ==
  IF occurrences > 3
  THEN (IF (occurrences - 3) * 5 < 50 THEN (occurrences - 3) * 5 ELSE 50) ELSE 0

\* if occurrences > 3: confidence -= min(0.5, occurrences * 0.05), in hundredths
repetition_penalty(occurrences) ==
  IF occurrences > 3
  THEN (IF occurrences * 5 < 50 THEN occurrences * 5 ELSE 50) ELSE 0

\* validate_person_name: <<is_valid, confidence>>, the confidence in hundredths
validate_person_name(name, text) ==
  LET good(w) == w[1] \in AsciiUpper \cup AccentUpper /\ \A i \in 1..Len(w) : w[i] \notin Digits
      name_lower == Lower(name)
      prefixes == <<<<"m",".">>, <<"m","m","e">>, <<"d","r">>, <<"p","r","o","f">>, <<"m","o","n","s","i","e","u","r">>, <<"m","a","d","a","m","e">>,
                    <<"d","o","c","t","e","u","r">>, <<"p","r","o","f","e","s","s","e","u","r">>>>
      org_indicators == <<<<"s","e","r","v","i","c","e">>, <<"é","q","u","i","p","e">>, <<"g","r","o","u","p","e">>, <<"d","é","p","a","r","t","e","m","e","n","t">>,
                          <<"d","i","r","e","c","t","i","o","n">>, <<"p","ô","l","e">>>>
      scored(words, capital_words, occurrences) ==
          50
        + (IF Len(words) < 2 THEN -20 ELSE 10)
        + 5 * capital_words - 10 * (Len(words) - capital_words)
        - (IF capital_words < 2 /\ Len(words) >= 2 THEN 20 ELSE 0)
        - repetition_penalty(occurrences)
        + (IF \E k \in 1..Len(prefixes) : StartsWith(name_lower, prefixes[k]) THEN 15 ELSE 0)
        - analyze_name_context(name, text)
        - (IF AnyIn(org_indicators, name_lower) THEN 30 ELSE 0)
      confidence ==
        Only({Only({scored(words, capital_words, occurrences) :
                    capital_words \in {Cardinality({k \in 1..Len(words) : good(words[k])})},
                    occurrences \in {Count(Lower(text), Lower(name))}}) :
              words \in {Split(name)}})
      clipped(c) == IF c > 100 THEN 100 ELSE IF c < 0 THEN 0 ELSE c
  IN IF name = <<>> \/ Len(name) < 3 THEN <<FALSE, 0>>
     ELSE IF AnyIn([k \in 1..Len(EXCLUDED_PERSONS) |-> Lower(EXCLUDED_PERSONS[k])],
                   Lower(name))
     THEN <<FALSE, 0>>
     ELSE IF IsUpper(name) /\ Len(Split(name)) = 1 /\ Len(name) <= 5 THEN <<FALSE, 0>>
     ELSE IF \E i \in 1..Len(name) : name[i] \in NameSymbols THEN <<FALSE, 0>>
     ELSE Only({<<c >= 30, clipped(c)>> : c \in {confidence}})

\* Each intermediate value of the function is bound once, as the code's local
\* variables are (\E v \in {e} : ... is LET v == e with e evaluated once).
validate_postal_address(address) ==
  \E a \in {Strip(address)} :
  \E postal_code_match \in {Search(Cat(<<WB, Rep(Cls(Digits), 5, 5), WB>>), a)} :
  \E street_match \in
       {Search(Cat(<<WB, Rep(Cls(Digits), 1, 4), Rep(Cls(Spaces), 0, -1), Opt(Lit(<<",">>)),
                     Rep(Cls(Spaces), 1, -1),
                     Rep(Cls(WordChars \cup Spaces \cup {"-", "'"} \cup LatinRange), 1, -1)>>),
               a)} :
    IF address = <<>> THEN FALSE
    ELSE IF postal_code_match = <<>> THEN FALSE
    ELSE IF street_match = <<>> THEN FALSE
    ELSE \E group0 \in {Slice(a, street_match[1].from, street_match[1].to)} :
         \* .split(',')[0]
         \E comma \in {Find(group0, <<",">>, 0)} :
         \E potential_street_name \in
              {Strip(IF comma = -1 THEN group0 ELSE Slice(group0, 0, comma))} :
           Len(Split(potential_street_name)) >= 2

Hex4 == Rep(Cls(Digits \cup {"a","b","c","d","e","f","A","B","C","D","E","F"}), 1, 4)
HexColon(lo, hi) == Rep(Cat(<<Hex4, Lit(<<":">>)>>), lo, hi)

validate_ip_address(ip) ==
  LET s == Strip(ip)
      o == Alt(<<Cat(<<Lit(<<"2","5">>), Cls({"0", "1", "2", "3", "4", "5"})>>),
                 Cat(<<Lit(<<"2">>), Cls({"0", "1", "2", "3", "4"}), Cls(Digits)>>),
                 Cat(<<Opt(Cls({"0", "1"})), Cls(Digits), Opt(Cls(Digits))>>)>>)
      ipv4_pattern == Cat(<<Rep(Cat(<<o, Lit(<<".">>)>>), 3, 3), o>>)
      ipv6_pattern ==
        Alt(<<Cat(<<HexColon(7, 7), Hex4>>),
              Cat(<<Lit(<<":",":">>), HexColon(0, 6), Hex4>>),
              Cat(<<Hex4, Lit(<<":",":">>), HexColon(0, 5), Hex4>>),
              Cat(<<Hex4, Lit(<<":">>), Hex4, Lit(<<":",":">>), HexColon(0, 4), Hex4>>),
              Cat(<<HexColon(0, 2), Hex4, Lit(<<":",":">>), HexColon(0, 3), Hex4>>),
              Cat(<<HexColon(0, 3), Hex4, Lit(<<":",":">>), HexColon(0, 2), Hex4>>),
              Cat(<<HexColon(0, 4), Hex4, Lit(<<":",":">>), HexColon(0, 1), Hex4>>),
              Cat(<<HexColon(0, 5), Hex4, Lit(<<":",":">>), Hex4>>),
              Cat(<<HexColon(0, 6), Hex4, Lit(<<":",":">>)>>)>>)
  IN IF ip = <<>> THEN FALSE
     ELSE FullMatch(ipv4_pattern, s) \/ FullMatch(ipv6_pattern, s)

(***************************************************************************)
(* analyzer/core.py: the recognizer and detect_personal_data               *)
(***************************************************************************)
\* a strict majority of the occurrences required
majority_in_org_context(org_contexts, n) == 2 * org_contexts > n

\* org_contexts >= len(occurrences) / 2
half_in_org_context(org_contexts, n) == 2 * org_contexts >= n

is_likely_organizational_name(text, entity) ==
  LET text_lower == Lower(text)
      entity_lower == Lower(entity)
      org_name_indicators == <<<<"s","e","r","v","i","c","e">>, <<"d","é","p","a","r","t","e","m","e","n","t">>, <<"d","i","r","e","c","t","i","o","n">>, <<"p","ô","l","e">>,
                               <<"é","q","u","i","p","e">>, <<"g","r","o","u","p","e">>, <<"u","n","i","t","é">>>>
      org_indicators ==
        <<<<"d","i","r","e","c","t","e","u","r">>, <<"d","i","r","e","c","t","r","i","c","e">>, <<"r","e","s","p","o","n","s","a","b","l","e">>, <<"c","h","e","f">>, <<"t","e","c","h","n","i","c","i","e","n">>,
          <<"i","n","f","o","r","m","a","t","i","q","u","e">>, <<"r","é","f","é","r","e","n","t">>, <<"c","h","a","r","g","é"," ","d","e">>, <<"s","e","r","v","i","c","e">>, <<"d","é","p","a","r","t","e","m","e","n","t">>,
          <<"p","ô","l","e">>, <<"l","'","é","q","u","i","p","e">>, <<"s","i","g","n","a","t","u","r","e">>, <<"c","o","n","t","a","c","t">>, <<"c","o","o","r","d","o","n","n","é","e","s">>, <<"a","d","j","o","i","n","t">>,
          <<"a","d","m","i","n","i","s","t","r","a","t","i","f">>, <<"c","o","n","s","e","i","l","l","e","r">>, <<"m","a","n","a","g","e","r">>, <<"g","e","s","t","i","o","n">>, <<"g","e","s","t","i","o","n","n","a","i","r","e">>,
          <<"a","s","s","i","s","t","a","n","t">>>>
      \* one context window per occurrence (the search restarts one character
      \* after each hit, so overlapping occurrences count)
      window(idx) ==
        Lower(Slice(text, IF idx - 50 > 0 THEN idx - 50 ELSE 0,
                    IF idx + Len(entity) + 50 < Len(text)
                    THEN idx + Len(entity) + 50 ELSE Len(text)))
      occurrences == Occurrences(text_lower, entity_lower)
      org_contexts == Cardinality({idx \in occurrences : AnyIn(org_indicators, window(idx))})
      official_patterns ==
        <<<<"m","."," ">> \o entity_lower, <<"m","r"," ">> \o entity_lower, <<"m","m","e"," ">> \o entity_lower,
          <<"m","o","n","s","i","e","u","r"," ">> \o entity_lower, <<"m","a","d","a","m","e"," ">> \o entity_lower,
          entity_lower \o <<","," ","d","i","r","e","c","t","e","u","r">>, entity_lower \o <<","," ","r","e","s","p","o","n","s","a","b","l","e">>,
          entity_lower \o <<" ","(","d","i","r","e","c","t","e","u","r">>, entity_lower \o <<" ","(","r","e","s","p","o","n","s","a","b","l","e">>,
          entity_lower \o <<" ","-"," ","d","i","r","e","c","t","e","u","r">>, entity_lower \o <<" ","-"," ","r","e","s","p","o","n","s","a","b","l","e">>>>
      roles == <<<<"e","s","t">>, <<"a"," ","é","t","é"," ","n","o","m","m","é">>, <<"o","c","c","u","p","e">>, <<"e","n"," ","c","h","a","r","g","e">>, <<":">>>>
      after_entity(idx) ==
        LET occurrence == window(idx)
            entity_pos == Find(occurrence, entity_lower, 0)
        IN Strip(Slice(occurrence, entity_pos + Len(entity_lower), Len(occurrence)))
  IN IF \E k \in 1..Len(ORGANIZATION_UNITS) :
          Contains(entity_lower, Lower(ORGANIZATION_UNITS[k])) THEN TRUE
     ELSE IF IsUpper(entity) /\ Len(Split(entity)) <= 2 THEN TRUE
     ELSE IF AnyIn(org_name_indicators, entity_lower) THEN TRUE
     ELSE IF occurrences = {} THEN FALSE
     ELSE IF half_in_org_context(org_contexts, Cardinality(occurrences)) THEN TRUE
     ELSE IF AnyIn(official_patterns, text_lower) THEN TRUE
     ELSE \E idx \in occurrences :
            \E k \in 1..Len(roles) : StartsWith(after_entity(idx), roles[k])

\* The phrases add_custom_patterns registers with the entity ruler: the excluded
\* persons and the organisation units as the module holds them, and the
\* placeholder names of templates (token patterns compare in lower case).
RulerPhrases ==
  EXCLUDED_PERSONS \o ORGANIZATION_UNITS \o <<<<"J","o","h","n"," ","D","o","e">>, <<"J","a","n","e"," ","D","o","e">>>>

RulerLowerPhrases ==
  <<<<"n","o","m"," ","p","r","é","n","o","m">>, <<"p","r","é","n","o","m"," ","n","o","m">>, <<"m","r"," ","x">>, <<"m","o","n","s","i","e","u","r"," ","x">>, <<"m","a","d","a","m","e"," ","x">>, <<"m","m","e"," ","x">>>>

\* whether the words of phrase occur as consecutive words of span
HasWords(span, phrase) ==
  LET w == Split(span)
      p == Split(phrase)
  IN \E i \in 0..(Len(w) - Len(p)) : SubSeq(w, i + 1, i + Len(p)) = p

\* nlp(text).ents restricted to the spans labelled PER.  doc.ents are the spans
\* the statistical recognizer tags on this text; a span the entity ruler (which
\* runs before it) has already labelled IGNORED_ENTITY or ORG is not tagged PER.
PersonEntities(doc, ruler) ==
  LET preempted(e) ==
        \/ \E k \in 1..Len(RulerPhrases) : HasWords(e.text, RulerPhrases[k])
        \/ \E k \in 1..Len(RulerLowerPhrases) : HasWords(Lower(e.text), RulerLowerPhrases[k])
  IN SelectSeq(doc.ents, LAMBDA e : e.label = "PER" /\ ~(ruler /\ preempted(e)))

DataTypes ==
  <<"emails", "phones", "dates", "names", "secu", "siret", "postal_addresses", "ip_addresses">>

\* confidence_thresholds, in hundredths
confidence_thresholds ==
  [emails |-> 70, phones |-> 70, dates |-> 50, names |-> 40, secu |-> 80, siret |-> 80,
   postal_addresses |-> 70, ip_addresses |-> 70]

\* the items appended to a bucket: each kept value with its confidence
Items(values, confidences) ==
  [k \in 1..Len(values) |-> [value |-> values[k], confidence |-> confidences[k]]]

is_template(text) == AnyIn(TEMPLATE_INDICATORS, Lower(text))

\* the e-mails that pass validate_email and are not of the organisation's domains
ValidEmails(text) ==
  SelectSeq(FindAll(EMAIL_REGEX, text),
            LAMBDA e : validate_email(e)
                       /\ ~AnyIn(<<<<"a","c","m","e",".","c","o","m">>, <<"a","c","m","e",".","n","e","t">>, <<"a","c","m","e",".","o","r","g">>, <<"a","c","m","e",".","f","r">>>>,
                                 Lower(e)))

\* the e-mail bucket with the two confidences exchanged
EmailsOfSwapped(text) ==
  Only({Items(kept, [k \in 1..Len(kept) |-> IF is_template(text) THEN 90 ELSE 70]) :
        kept \in {ValidEmails(text)}})

\* the emails, phones, dates, secu and siret buckets (core.py 588-648); kept is
\* the list of the values that pass the validator
EmailsOf(text) ==
  Only({Items(kept, [k \in 1..Len(kept) |-> IF is_template(text) THEN 70 ELSE 90]) :
        kept \in {ValidEmails(text)}})

\* re.match(r'^0[1-9](?: \d{2}){4}$', phone)
CommonPhoneFormat(phone) ==
  FullMatch(Cat(<<Lit(<<"0">>), Cls(D19),
                  Rep(Cat(<<Lit(<<" ">>), Rep(Cls(Digits), 2, 2)>>), 4, 4)>>), phone)

PhonesOf(text) ==
  Only({Items(kept, [k \in 1..Len(kept) |->
                       IF is_template(text) THEN 70
                       ELSE IF CommonPhoneFormat(kept[k]) THEN 75 ELSE 85]) :
        kept \in {SelectSeq(FindAll(PHONE_REGEX, text), validate_phone)}})

\* findall returns tuples here, which are joined with "/" before validation
DatesOf(text) ==
  LET dates == Only({[k \in 1..Len(found) |-> found[k][1] \o <<"/">> \o found[k][2]] :
                     found \in {DateFindAll(text)}})
  IN Only({Items(kept, [k \in 1..Len(kept) |-> 50]) :
           kept \in {SelectSeq(dates, validate_date)}})

SecuOf(text) ==
  Only({Items(kept, [k \in 1..Len(kept) |-> 98]) :
        kept \in {SelectSeq(FindAll(SECU_REGEX, text), validate_secu)}})

SiretOf(text) ==
  Only({Items(kept, [k \in 1..Len(kept) |-> 92]) :
        kept \in {SelectSeq(FindAll(SIRET_REGEX, text), validate_siret)}})

PostalOf(text) ==
  Only({Items(kept, [k \in 1..Len(kept) |-> IF is_template(text) THEN 65 ELSE 75]) :
        kept \in {SelectSeq(FindAll(POSTAL_ADDRESS_REGEX, text), validate_postal_address)}})

IpOf(text) ==
  LET private(ip) == \E p \in {<<"1","2","7",".">>, <<"1","9","2",".","1","6","8",".">>, <<"1","0",".">>, <<"1","7","2",".">>} : StartsWith(ip, p)
  IN Only({Items(kept, [k \in 1..Len(kept) |-> IF private(kept[k]) THEN 75 ELSE 85]) :
           kept \in {SelectSeq(FindAll(IP_ADDRESS_REGEX, text), validate_ip_address)}})

\* the names kept from doc.ents (core.py 652-665)
RecognizedNames(doc, ruler) ==
  LET \* text[:100000] is the whole text here
      names == Only({[k \in 1..Len(ents) |-> Strip(ents[k].text)] :
                     ents \in {PersonEntities(doc, ruler)}})
  IN Only({Items(kept, [k \in 1..Len(kept) |-> validate_person_name(kept[k], doc.text)[2]]) :
           kept \in {SelectSeq(names,
                               LAMBDA n : validate_person_name(n, doc.text)[1]
                                          /\ ~is_likely_organizational_name(doc.text, n))}})

\* the recognizer block with an exception of the recognizer left uncaught
NamesOfUncaught(doc, ruler) ==
  IF doc.ner_raises THEN [escaped |-> TRUE, names |-> <<>>]
  ELSE [escaped |-> FALSE, names |-> RecognizedNames(doc, ruler)]

\* The recognizer block (core.py 650-667).  escaped tells whether an exception
\* left the block: the inner handler catches every Exception, so none does.
NamesOf(doc, ruler) ==
  IF doc.ner_raises THEN [escaped |-> FALSE, names |-> <<>>]
  ELSE [escaped |-> FALSE, names |-> RecognizedNames(doc, ruler)]

EmptyResults == [t \in {DataTypes[k] : k \in 1..Len(DataTypes)} |-> <<>>]

\* the final filter left out
Unfiltered(results) == results

\* the final filter (core.py 696-714)
FilterByThreshold(results) ==
  [t \in DOMAIN results |->
     SelectSeq(results[t], LAMBDA item : item.confidence >= confidence_thresholds[t])]

\* detect_personal_data after initialize_nlp() has returned: ruler tells whether
\* the pipeline the global nlp names has the custom patterns
detect_body(doc, ruler) ==
  LET text == doc.text
      results ==
        Only({[emails |-> EmailsOf(text), phones |-> PhonesOf(text), dates |-> DatesOf(text),
               names |-> ner.names, secu |-> SecuOf(text), siret |-> SiretOf(text),
               \* an exception that reached the outer handler would skip what follows
               postal_addresses |-> IF ner.escaped THEN <<>> ELSE PostalOf(text),
               ip_addresses |-> IF ner.escaped THEN <<>> ELSE IpOf(text)] :
              ner \in {NamesOf(doc, ruler)}})
  IN IF text = <<>> \/ Len(text) < 3 THEN EmptyResults
     ELSE Only({FilterByThreshold(all) : all \in {results}})

(***************************************************************************)
(* The documents the analyses run on.  ents is what the statistical        *)
(* recognizer of the language model tags on the text (an input of the      *)
(* program, whose model is external); ner_raises tells that the recognizer *)
(* raises on this text.                                                    *)
(***************************************************************************)
Docs ==
  LET Filler(n) == [i \in 1..n |-> IF i % 2 = 1 THEN "a" ELSE " "]
      Person(name) == [text |-> name, label |-> "PER"]
      DocPersonal ==
        <<"J","e","a","n"," ","D","u","p","o","n","t"," ","h","a","b","i","t","e"," ","1","2"," ","r","u","e"," ","d","e"," ","l","a"," ","P","a","i","x",","," ","7","5","0","0","2"," ","P","a","r","i","s",";"," ","e","c","r","i","r","e"," ","a"," ","j","e","a","n",".","d","u","p","o","n","t","@","e","x","a","m","p","l","e",".","c","o","m"," ","o","u"," ","0","6"," ","1","2"," ","3","4"," ","5","6"," ","7","8"," ","o","u"," ","0","6","1","2","3","4","5","6","7","8",","," ","I","P"," ","1","9","2",".","1","6","8",".","1",".","1"," ","e","t"," ","8",".","8",".","8",".","8">>
      \* "chef" and "dg" end exactly inside the 100 characters that follow the name
      DocWindowTail == Filler(91) \o <<" ","c","h","e","f"," ","d","g"," ","j",".","d","@","e","x",".","f","r">>
  IN << \* 1: personal data of every regex type and a name
        [text |-> DocPersonal, ents |-> <<Person(<<"J","e","a","n"," ","D","u","p","o","n","t">>)>>, ner_raises |-> FALSE],
        \* 2: the same with a template term appended
        [text |-> DocPersonal \o <<" ","t","e","s","t">>, ents |-> <<Person(<<"J","e","a","n"," ","D","u","p","o","n","t">>)>>,
         ner_raises |-> FALSE],
        \* 3: a name with two professional terms at the edge of its context window
        [text |-> <<"J","e","a","n"," ","D","u","p","o","n","t"," ">> \o DocWindowTail, ents |-> <<Person(<<"J","e","a","n"," ","D","u","p","o","n","t">>)>>,
         ner_raises |-> FALSE],
        \* 4: the same with a template term inserted after the name
        [text |-> <<"J","e","a","n"," ","D","u","p","o","n","t"," ","t","e","s","t"," ">> \o DocWindowTail, ents |-> <<Person(<<"J","e","a","n"," ","D","u","p","o","n","t">>)>>,
         ner_raises |-> FALSE],
        \* 5: a placeholder name the ruler patterns cover
        [text |-> <<"B","o","n","j","o","u","r"," ","M","o","n","s","i","e","u","r"," ","X",","," ","m","e","r","c","i">>, ents |-> <<Person(<<"M","o","n","s","i","e","u","r"," ","X">>)>>,
         ner_raises |-> FALSE],
        \* 6: a text the recognizer raises on
        [text |-> <<"M","a","r","i","e"," ","C","u","r","i","e",":"," ","m",".","c","u","r","i","e","@","e","x","a","m","p","l","e",".","o","r","g",","," ","5"," ","a","v","e","n","u","e"," ","d","e","s"," ","L","i","l","a","s",","," ","7","5","0","2","0"," ","P","a","r","i","s",","," ","1","0",".","0",".","0",".","1",","," ","s","e","c","u"," ","1","8","5","0","7","7","5","1","2","3","4","5","6"," ","s","i","r","e","t"," ","7","3","2","8","2","9","3","2","0","0","0","0","7","4">>,
         ents |-> <<Person(<<"M","a","r","i","e"," ","C","u","r","i","e">>)>>, ner_raises |-> TRUE],
        \* 7, 8: an empty text and a text of two characters
        [text |-> <<>>, ents |-> <<>>, ner_raises |-> FALSE],
        [text |-> <<"a","b">>, ents |-> <<>>, ner_raises |-> FALSE],
        \* 9: one e-mail, one phone number, one postal address, one IPv4 address
        \* and one national number of 15 digits whose key is 97 - (body mod 97)
        [text |-> <<"C","o","n","t","a","c","t",":"," ","j","e","a","n",".","d","u","p","o","n","t","@","e","x","a","m","p","l","e",".","c","o","m",","," ","t","e","l"," ","0","6"," ","1","2"," ","3","4"," ","5","6"," ","7","8",","," ","a","d","r","e","s","s","e"," ","1","2"," ","r","u","e"," ","d","e"," ","l","a"," ","P","a","i","x",","," ","7","5","0","0","2"," ","P","a","r","i","s",","," ","I","P"," ","1","9","2",".","1","6","8",".","1",".","1",","," ","N","I","R"," ","1","8","5","0","7","7","5","1","2","3","4","5","6","0","8">>,
         ents |-> <<>>, ner_raises |-> FALSE] >>

DocIds == 1..Len(Docs)

\* detect_body on every document, for a pipeline without and with the patterns
DetectOf == [doc \in {Docs[d] : d \in DocIds} |->
               [ruler \in BOOLEAN |-> detect_body(doc, ruler)]]

DetectTable == [d \in DocIds |-> DetectOf[Docs[d]]]

(***************************************************************************)
(* State of the process                                                    *)
(***************************************************************************)
VARIABLES
  model_installed,  \* whether spacy.load("fr_core_news_md") finds the model
  nlp,              \* core.nlp: 0 for None, else the index of a pipeline
  pipelines,        \* the pipelines spacy.load has built; ruler: patterns added
  exclusion_lists,  \* attributes of the module config.exclusion_lists
  pc,               \* where each thread stands in detect_personal_data
  call,             \* each thread's current or latest call of detect_personal_data
  all_results,      \* the file records handed to calculate_risk_scores
  risk_analysis,    \* what calculate_risk_scores last returned
  batch,            \* the batch scan in progress and what it returned
  validation,       \* the latest direct call of a validator and what it returned
  clock,            \* int(time.time()): the second of the wall clock
  task_files,       \* saved_analyses/tasks/<id>.json, one file per task id
  tasks,            \* the calls of create_task and the threads they started
  poll,             \* the latest call of get_task_status and what it returned
  auth,             \* auth/users.json, auth/sessions.json and the calls of Authentication
  errors,           \* logs/error_summary.json and the calls of log_error
  storage           \* saved_analyses/metadata.json and the calls of AnalysisStorage

coreVars ==
  <<model_installed, nlp, pipelines, exclusion_lists, pc, call, all_results,
    risk_analysis, batch, validation>>

serviceVars == <<clock, task_files, tasks, poll, auth, errors, storage>>

vars == <<coreVars, serviceVars>>

\* the threads that call detect_personal_data: background tasks and the UI script
Threads == {"t1", "t2"}

NoCall == [status |-> "none", doc |-> 0, persons |-> <<>>, result |-> EmptyResults]

NoBatch ==
  [mode |-> "none", files |-> <<>>, i |-> 0, results |-> <<>>, skipped_files |-> <<>>,
   error_files |-> <<>>, status |-> "idle",
   output |-> [keys |-> {}, results |-> <<>>, skipped_files |-> <<>>, error_files |-> <<>>]]

NoAnalysis ==
  [computed |-> FALSE, high_risk_files |-> <<>>, medium_risk_files |-> <<>>,
   low_risk_files |-> <<>>,
   risk_by_type |-> [data_type \in DOMAIN EmptyResults \ {"dates"} |-> [n |-> 0, d |-> 1]],
   total_high_risk |-> 0, total_medium_risk |-> 0, total_low_risk |-> 0,
   top_risky_extensions |-> <<>>, total_analyzed |-> 0]

\* no validator was called directly yet
NoValidation == [fn |-> "none", args |-> <<>>, result |-> FALSE]

\* the seconds the clock goes through: a task id is the second of its creation
MaxClock == 1

\* a task file that was never written
NoTaskFile ==
  [exists |-> FALSE, content |-> "empty",
   data |-> [owner |-> 0, params |-> <<>>, status |-> "absent", progress |-> 0,
             results |-> "null"]]

Init ==
  /\ model_installed \in BOOLEAN
  /\ nlp = 0
  /\ pipelines = <<>>
  /\ exclusion_lists = [EXCLUDED_PERSONS |-> EXCLUDED_PERSONS,
                        ORGANIZATION_UNITS |-> ORGANIZATION_UNITS]
  /\ pc = [t \in Threads |-> "idle"]
  /\ call = [t \in Threads |-> NoCall]
  /\ all_results = <<>>
  /\ risk_analysis = NoAnalysis
  /\ batch = NoBatch
  /\ validation = NoValidation
  /\ clock = 0
  /\ task_files = [id \in 0..MaxClock |-> NoTaskFile]
  /\ tasks = <<>>
  /\ poll = [id |-> 0, created |-> FALSE, shared |-> FALSE, result |-> "not called"]
  /\ auth = [users |-> {"admin", "alice"}, sessions |-> {}, issued |-> 0,
             calls |-> [s \in {"s1", "s2"} |->
                          [op |-> "none", pc |-> "idle", username |-> "", users |-> {},
                           sessions |-> {}, token |-> 0, result |-> FALSE]]]
  /\ errors = [most_common_errors |-> <<>>, total_errors |-> 0,
               categories |-> [other |-> 0], logged |-> <<>>]
  /\ storage = [metadata |-> <<>>, calls |-> <<>>]

(***************************************************************************)
(* detect_personal_data, step by step (core.py 557-716, 51-103)            *)
(***************************************************************************)
\* detect_personal_data(text) is entered and initialize_nlp tests the global
Call(t, d) ==
  /\ pc[t] = "idle"
  /\ call' = [call EXCEPT ![t] = [status |-> "running", doc |-> d,
                                  persons |-> exclusion_lists.EXCLUDED_PERSONS,
                                  result |-> EmptyResults]]
  /\ pc' = [pc EXCEPT ![t] = IF nlp = 0 THEN "load" ELSE "body"]
  /\ UNCHANGED <<model_installed, nlp, pipelines, exclusion_lists, all_results,
                 risk_analysis, batch, validation, serviceVars>>

\* nlp = spacy.load("fr_core_news_md")
LoadModel(t) ==
  /\ pc[t] = "load"
  /\ model_installed
  /\ pipelines' = Append(pipelines, [ruler |-> FALSE])
  /\ nlp' = Len(pipelines) + 1
  /\ pc' = [pc EXCEPT ![t] = "patterns"]
  /\ UNCHANGED <<model_installed, exclusion_lists, call, all_results, risk_analysis, batch,
                 validation, serviceVars>>

\* spacy.load raises OSError and initialize_nlp raises Exception out of detect
LoadFails(t) ==
  /\ pc[t] = "load"
  /\ ~model_installed
  /\ call' = [call EXCEPT ![t].status = "raised"]
  /\ pc' = [pc EXCEPT ![t] = "idle"]
  /\ UNCHANGED <<model_installed, nlp, pipelines, exclusion_lists, all_results,
                 risk_analysis, batch, validation, serviceVars>>

\* add_custom_patterns(nlp) adds the ruler and its patterns to the pipeline the
\* global names when it runs
add_custom_patterns(t) ==
  /\ pc[t] = "patterns"
  /\ pipelines' = [pipelines EXCEPT ![nlp].ruler = TRUE]
  /\ pc' = [pc EXCEPT ![t] = "body"]
  /\ UNCHANGED <<model_installed, nlp, exclusion_lists, call, all_results,
                 risk_analysis, batch, validation, serviceVars>>

\* the rest of detect_personal_data, with the pipeline the global names
DetectBody(t) ==
  /\ pc[t] = "body"
  /\ call' = [call EXCEPT ![t].status = "returned",
                          ![t].result = DetectTable[call[t].doc][pipelines[nlp].ruler]]
  /\ pc' = [pc EXCEPT ![t] = "idle"]
  /\ UNCHANGED <<model_installed, nlp, pipelines, exclusion_lists, all_results,
                 risk_analysis, batch, validation, serviceVars>>

(***************************************************************************)
(* The settings form (app.py 691-754)                                      *)
(***************************************************************************)
\* the lists an administrator may submit in the form
SettingsChoices == {EXCLUDED_PERSONS, Append(EXCLUDED_PERSONS, <<"J","e","a","n"," ","D","u","p","o","n","t">>)}

\* the form rewrites config/exclusion_lists.py and reloads that module; the
\* names analyzer.core and analyzer.validators imported from it are not rebound
SaveSettings(new_excluded_persons) ==
  /\ exclusion_lists' = [exclusion_lists EXCEPT !.EXCLUDED_PERSONS = new_excluded_persons]
  /\ UNCHANGED <<model_installed, nlp, pipelines, pc, call, all_results, risk_analysis, batch,
                 validation, serviceVars>>

Next ==
  \/ \E t \in Threads : \E d \in DocIds : Call(t, d)
  \/ \E t \in Threads : LoadModel(t)
  \/ \E t \in Threads : LoadFails(t)
  \/ \E t \in Threads : add_custom_patterns(t)
  \/ \E t \in Threads : DetectBody(t)
  \/ \E p \in SettingsChoices : SaveSettings(p)

Spec == Init /\ [][Next]_vars

(***************************************************************************)
(* analyze_file and calculate_risk_scores (core.py 404-522)                *)
(* Confidences are hundredths; a mean is kept as an exact fraction n/d.    *)
(***************************************************************************)
MaxRecords == 2

Rat(n, d) == [n |-> n, d |-> d]

RatAdd(a, b) == Rat(a.n * b.d + b.n * a.d, a.d * b.d)

RatEq(a, b) == a.n * b.d = b.n * a.d

RatGt(a, b) == a.n * b.d > b.n * a.d

RECURSIVE SumConfidence(_)
SumConfidence(items) ==
  IF items = <<>> THEN 0 ELSE Head(items).confidence + SumConfidence(Tail(items))

RiskTypes ==
  <<"emails", "phones", "names", "secu", "siret", "postal_addresses", "ip_addresses">>

\* analyze_file without a factor per data type
risk_factor_flat(data_type) == 1

risk_factor(data_type) ==
  IF data_type \in {"postal_addresses", "ip_addresses"} THEN 2
  ELSE IF data_type \in {"secu", "emails", "phones"} THEN 3 ELSE 1

\* the record analyze_file builds from the detections of a file (core.py 426-446):
\* risk[data_type] is result[f"{data_type}_risk"]
FileRecord(file_path, personal_data) ==
  [file_path |-> file_path, file_type |-> "text",
   risk |-> [data_type \in DOMAIN personal_data |->
               LET confidences == personal_data[data_type]
               IN IF confidences = <<>> THEN Rat(0, 1)
                  ELSE Rat(SumConfidence(confidences) * risk_factor(data_type),
                           Len(confidences))]]

DocPath(d) == [name |-> d, suffix |-> <<".","t","x","t">>]

\* analyze_file(path of document d) by a sequential caller: no record when the
\* text is empty or when detect_personal_data raises
AnalyzeFile(d) ==
  LET detects == Docs[d].text /= <<>>
      loads == detects /\ nlp = 0 /\ model_installed
      raises == detects /\ nlp = 0 /\ ~model_installed
      ruler == IF nlp = 0 THEN TRUE ELSE pipelines[nlp].ruler
  IN /\ Len(all_results) < MaxRecords
     /\ \A t \in Threads : pc[t] = "idle"
     /\ pipelines' = IF loads THEN Append(pipelines, [ruler |-> TRUE]) ELSE pipelines
     /\ nlp' = IF loads THEN Len(pipelines) + 1 ELSE nlp
     /\ all_results' = IF detects /\ ~raises
                       THEN Append(all_results, FileRecord(DocPath(d), DetectTable[d][ruler]))
                       ELSE all_results
     /\ UNCHANGED <<model_installed, exclusion_lists, pc, call, risk_analysis, batch, validation, serviceVars>>

\* records of a stored analysis (storage.py hands them to calculate_risk_scores):
\* their risk columns hold whatever the file holds
StoredRisks == {0, 1, 200, 201, 400, 401}

StoredRecord(v) ==
  [file_path |-> [name |-> v, suffix |-> IF v % 2 = 0 THEN <<".","P","D","F">> ELSE <<".","p","d","f">>],
   file_type |-> "pdf",
   risk |-> [data_type \in DOMAIN EmptyResults |->
               IF data_type = "emails" THEN Rat(v, 1) ELSE Rat(0, 1)]]

LoadStored(v) ==
  /\ Len(all_results) < MaxRecords
  /\ all_results' = Append(all_results, StoredRecord(v))
  /\ UNCHANGED <<model_installed, nlp, pipelines, exclusion_lists, pc, call, risk_analysis,
                 batch, validation, serviceVars>>

risk_weights ==
  [secu |-> 10, emails |-> 5, phones |-> 5, names |-> 3, siret |-> 2,
   postal_addresses |-> 2, ip_addresses |-> 2]

\* risk_score of one data type in the loop of calculate_risk_scores
Contribution(result, data_type) ==
  IF result.risk[data_type].n /= 0
  THEN Rat(result.risk[data_type].n * risk_weights[data_type], result.risk[data_type].d)
  ELSE Rat(0, 1)

\* file_risk once the loop over the data types is over
file_risk(result) ==
  LET RECURSIVE SumContributions(_)
      SumContributions(k) ==
        IF k = 0 THEN Rat(0, 1)
        ELSE RatAdd(SumContributions(k - 1), Contribution(result, RiskTypes[k]))
  IN SumContributions(Len(RiskTypes))

\* the tiers with the bounds 20 and 10 taken on the upper side
TierInclusive(score) ==
  IF ~RatGt(Rat(2000, 1), score) THEN "high"
  ELSE IF ~RatGt(Rat(1000, 1), score) THEN "medium"
  ELSE IF RatGt(score, Rat(0, 1)) THEN "low" ELSE "none"

\* the tiers when the last test is file_risk >= 0
TierZeroLow(score) ==
  IF RatGt(score, Rat(2000, 1)) THEN "high"
  ELSE IF RatGt(score, Rat(1000, 1)) THEN "medium" ELSE "low"

\* the tier the if/elif chain puts a score in (20 and 10 are 2000 and 1000 hundredths)
Tier(score) ==
  IF RatGt(score, Rat(2000, 1)) THEN "high"
  ELSE IF RatGt(score, Rat(1000, 1)) THEN "medium"
  ELSE IF RatGt(score, Rat(0, 1)) THEN "low" ELSE "none"

\* the lists left in the order of the appends
KeptOrder(items, greater) == items

\* sorted(items, key=..., reverse=True): greatest first, and stable, so that an
\* item stands after the greater ones and after the equal ones given before it;
\* greater[j][k] tells that the key of items[j] is greater than that of items[k]
SortedDesc(items, greater) ==
  LET before(j, k) == greater[j][k] \/ (~greater[k][j] /\ j < k)
      rank(k) == Cardinality({j \in 1..Len(items) : before(j, k)}) + 1
  IN [r \in 1..Len(items) |-> items[CHOOSE k \in 1..Len(items) : rank(k) = r]]

calculate_risk_scores(results) ==
  LET entry(k) == [path |-> results[k].file_path, score |-> file_risk(results[k]),
                   type |-> results[k].file_type]
      entries == [k \in 1..Len(results) |-> entry(k)]
      tier(name) == SelectSeq(entries, LAMBDA e : Tier(e.score) = name)
      by_score(list) ==
        [j \in 1..Len(list) |-> [k \in 1..Len(list) |-> RatGt(list[j].score, list[k].score)]]
      at_risk == SelectSeq(entries, LAMBDA e : RatGt(e.score, Rat(0, 1)))
      extension(e) == Lower(e.path.suffix)
      \* the extensions in the order the dictionary received them
      first(k) == \A j \in 1..(k - 1) : extension(at_risk[j]) /= extension(at_risk[k])
      firsts == SelectSeq([k \in 1..Len(at_risk) |-> k], first)
      counts == [k \in 1..Len(firsts) |->
                   <<extension(at_risk[firsts[k]]),
                     Cardinality({j \in 1..Len(at_risk) :
                                    extension(at_risk[j]) = extension(at_risk[firsts[k]])})>>]
      \* risk_by_type[data_type] once the loop over the results is over
      by_type(data_type) ==
        LET RECURSIVE SumType(_)
            SumType(k) ==
              IF k = 0 THEN Rat(0, 1)
              ELSE RatAdd(SumType(k - 1), Contribution(results[k], data_type))
        IN SumType(Len(results))
      by_count == [j \in 1..Len(counts) |-> [k \in 1..Len(counts) |-> counts[j][2] > counts[k][2]]]
  IN [computed |-> TRUE,
      high_risk_files |-> SortedDesc(tier("high"), by_score(tier("high"))),
      medium_risk_files |-> SortedDesc(tier("medium"), by_score(tier("medium"))),
      low_risk_files |-> tier("low"),
      risk_by_type |-> [data_type \in DOMAIN risk_weights |-> by_type(data_type)],
      total_high_risk |-> Len(tier("high")),
      total_medium_risk |-> Len(tier("medium")),
      total_low_risk |-> Len(tier("low")),
      top_risky_extensions |-> SortedDesc(counts, by_count),
      total_analyzed |-> Len(results)]

CalculateRiskScores ==
  /\ all_results /= <<>>
  /\ risk_analysis' = calculate_risk_scores(all_results)
  /\ UNCHANGED <<model_installed, nlp, pipelines, exclusion_lists, pc, call, all_results,
                 batch, validation, serviceVars>>

NextRisk ==
  \/ \E d \in DocIds : AnalyzeFile(d)
  \/ \E v \in StoredRisks : LoadStored(v)
  \/ CalculateRiskScores

SpecRisk == Init /\ [][NextRisk]_vars

(***************************************************************************)
(* Batch scans (background_task.py 132-300, app.py 467-526)                *)
(***************************************************************************)
MaxFiles == 2

\* What analysing one file of a batch does: analyze_file returns a record
\* ("result"), returns None ("none": unreadable or empty file, or an error it
\* caught itself; a temporary "~$" file is skipped this way), or an exception
\* leaves the statements of the loop body ("raises").
BatchFiles ==
  {[temp |-> FALSE, outcome |-> "result"], [temp |-> FALSE, outcome |-> "none"],
   [temp |-> FALSE, outcome |-> "raises"], [temp |-> TRUE, outcome |-> "none"]}

\* create_task("directory_analysis" | "files_analysis", ...) starts the task
\* thread, or the UI calls analyze_uploaded_files with a progress bar
StartBatch(mode, files) ==
  /\ batch.status /= "running"
  /\ batch' = [NoBatch EXCEPT !.mode = mode, !.files = files, !.status = "running"]
  /\ UNCHANGED <<model_installed, nlp, pipelines, exclusion_lists, pc, call, all_results,
                 risk_analysis, validation, serviceVars>>

Running(mode) == batch.mode = mode /\ batch.status = "running"

\* one turn of the loop of _analyze_directory (background_task.py 168-186)
DirectoryStep ==
  LET k == batch.i + 1
      file == batch.files[k]
  IN /\ Running("directory")
     /\ batch.i < Len(batch.files)
     /\ batch' =
          [batch EXCEPT
             !.i = k,
             !.results = IF file.outcome = "result" THEN Append(@, k) ELSE @,
             !.skipped_files = IF file.outcome = "none" /\ file.temp THEN Append(@, k) ELSE @,
             !.error_files = IF \/ file.outcome = "none" /\ ~file.temp
                                \/ file.outcome = "raises"
                             THEN Append(@, k) ELSE @]
     /\ UNCHANGED <<model_installed, nlp, pipelines, exclusion_lists, pc, call, all_results,
                    risk_analysis, validation, serviceVars>>

\* what _analyze_directory returns (background_task.py 188-222)
DirectoryReturn ==
  /\ Running("directory")
  /\ batch.i = Len(batch.files)
  /\ batch' =
       [batch EXCEPT
          !.status = "returned",
          !.output = IF batch.results = <<>>
                     THEN [keys |-> {"error"}, results |-> <<>>, skipped_files |-> <<>>,
                           error_files |-> <<>>]
                     ELSE [keys |-> {"results", "skipped_files", "error_files", "risk_analysis"},
                           results |-> batch.results, skipped_files |-> batch.skipped_files,
                           error_files |-> batch.error_files]]
  /\ UNCHANGED <<model_installed, nlp, pipelines, exclusion_lists, pc, call, all_results,
                 risk_analysis, validation, serviceVars>>

\* one turn of the loop of _analyze_files (background_task.py 242-267): an
\* exception is swallowed by "continue", a None result is dropped
FilesStep ==
  LET k == batch.i + 1
      file == batch.files[k]
  IN /\ Running("files")
     /\ batch.i < Len(batch.files)
     /\ batch' = [batch EXCEPT
                    !.i = k,
                    !.results = IF file.outcome = "result" THEN Append(@, k) ELSE @]
     /\ UNCHANGED <<model_installed, nlp, pipelines, exclusion_lists, pc, call, all_results,
                    risk_analysis, validation, serviceVars>>

\* what _analyze_files returns (background_task.py 269-300)
FilesReturn ==
  /\ Running("files")
  /\ batch.i = Len(batch.files)
  /\ batch' =
       [batch EXCEPT
          !.status = "returned",
          !.output = IF batch.results = <<>>
                     THEN [keys |-> {"error"}, results |-> <<>>, skipped_files |-> <<>>,
                           error_files |-> <<>>]
                     ELSE [keys |-> {"results", "risk_analysis"}, results |-> batch.results,
                           skipped_files |-> <<>>, error_files |-> <<>>]]
  /\ UNCHANGED <<model_installed, nlp, pipelines, exclusion_lists, pc, call, all_results,
                 risk_analysis, validation, serviceVars>>

\* one turn of the synchronous loop of analyze_uploaded_files (app.py 497-510):
\* nothing catches an exception, which ends the call
UploadStep ==
  LET k == batch.i + 1
      file == batch.files[k]
  IN /\ Running("upload")
     /\ batch.i < Len(batch.files)
     /\ batch' = IF file.outcome = "raises"
                 THEN [batch EXCEPT !.status = "aborted"]
                 ELSE [batch EXCEPT
                         !.i = k,
                         !.results = IF file.outcome = "result" THEN Append(@, k) ELSE @]
     /\ UNCHANGED <<model_installed, nlp, pipelines, exclusion_lists, pc, call, all_results,
                    risk_analysis, validation, serviceVars>>

\* what analyze_uploaded_files returns: the frame of the results, or an empty one
UploadReturn ==
  /\ Running("upload")
  /\ batch.i = Len(batch.files)
  /\ batch' = [batch EXCEPT
                 !.status = "returned",
                 !.output = [keys |-> {"results"}, results |-> batch.results,
                             skipped_files |-> <<>>, error_files |-> <<>>]]
  /\ UNCHANGED <<model_installed, nlp, pipelines, exclusion_lists, pc, call, all_results,
                 risk_analysis, validation, serviceVars>>

NextBatch ==
  \/ \E mode \in {"directory", "files", "upload"} :
       \E n \in 1..MaxFiles : \E files \in [1..n -> BatchFiles] : StartBatch(mode, files)
  \/ DirectoryStep
  \/ DirectoryReturn
  \/ FilesStep
  \/ FilesReturn
  \/ UploadStep
  \/ UploadReturn

SpecBatch == Init /\ [][NextBatch]_vars

(***************************************************************************)
(* The validators called directly (analyzer/validators.py and              *)
(* is_likely_organizational_name of analyzer/core.py), as the tests and    *)
(* detect_personal_data call them: one call at a time, on one argument.    *)
(***************************************************************************)
\* the arguments validate_secu is called on: the 13-digit body of a national number with every two-digit key,
\* with every one-digit suffix, alone, and the strings of the tests
SecuInputs ==
  LET body == <<"1","8","5","0","7","7","5","1","2","3","4","5","6">>
  IN      {body \o <<a, b>> : a \in Digits, b \in Digits}
     \cup {body \o <<a>> : a \in Digits}
     \cup {body, body \o <<"\n">>, <<>>, <<"1","2","3","4","5">>, <<"1","9","6","1","2","3","4","5","6","7","8","9","0","1","2">>,
           <<"2","9","5","0","7","3","1","2","3","4","5","6","7","1","2">>, <<"1","5","4","0","2","3","9","1","2","3","4","5","6">>, <<"4","9","6","1","2","3","4","5","6","7","8","9","0","1","2">>, <<"1","9","5","1","3","9","1","2","3","4","5","6","7","1","2">>,
           <<"4","8","5","0","7","7","5","1","2","3","4","5","6">>, <<"1","8","5","0","7","7","5","1","2","3","4","5","a">>}

\* the arguments validate_date is called on: DD/MM/YYYY, and the dates of 2020
\* with the two other separators
DateInputs ==
  LET days == {<<"0","1">>, <<"2","8">>, <<"2","9">>, <<"3","0">>, <<"3","1">>, <<"3","2">>}
      months == {<<"0","1">>, <<"0","2">>, <<"0","4">>, <<"1","2">>, <<"1","3">>}
      years == {<<"1","8","0","0">>, <<"1","9","0","0">>, <<"2","0","0","0">>, <<"2","0","2","0">>, <<"2","0","2","1">>, <<"2","0","2","5">>, <<"2","0","2","6">>}
  IN      {<<>>}
     \cup {d \o <<"/">> \o m \o <<"/">> \o y : d \in days, m \in months, y \in years}
     \cup {d \o <<sep>> \o m \o <<sep>> \o <<"2","0","2","0">> :
             d \in days, m \in months, sep \in {"-", "."}}

\* the arguments validate_phone is called on: a country code or trunk prefix
\* followed by subscriber digits, and the strings of the tests
PhoneInputs ==
     {p \o n : p \in {<<"+","3","3">>, <<"0","0","3","3">>, <<"+","3","3","0">>, <<"0","0","3","3","0">>, <<"0">>},
               n \in {<<"6","1","2","3","4","5","6","7","8">>, <<"5","1","2","3","4","5","6","7","8">>, <<"6","1","2","3","4","5","6","7">>, <<"0","1","2","3","4","5","6","7","8">>}}
  \cup {<<"+","3","3"," ","6"," ","1","2"," ","3","4"," ","5","6"," ","7","8">>, <<"+","3","3"," ","(","0",")","6"," ","1","2"," ","3","4"," ","5","6"," ","7","8">>, <<"0","0","3","3"," ","6"," ","1","2"," ","3","4"," ","5","6"," ","7","8">>,
        <<"0","6"," ","1","2"," ","3","4"," ","5","6"," ","7","8">>, <<"0","6",".","1","2",".","3","4",".","5","6",".","7","8">>, <<"0","6","-","1","2","-","3","4","-","5","6","-","7","8">>, <<"0","6","1","2","3","4","5","6","7","8">>,
        <<"0","5","1","2","3","4","5","6","7","8">>, <<"0","6","1","2","3","4","5","6","7">>, <<"0","6","1","2","3","4","5">>, <<"a","b","c","1","2","3","4","5","6","7">>, <<"0","6","1","2","3","a","5","6","7","8">>, <<>>}

\* the arguments validate_siret is called on: two stems with every last digit,
\* a valid number with every first digit, and the strings of the tests
SiretInputs ==
     {<<"7","3","2","8","2","9","3","2","0","0","0","0","7">> \o <<d>> : d \in Digits}
  \cup {<<"3","5","6","0","0","0","0","0","0","0","0","0","4">> \o <<d>> : d \in Digits}
  \cup {<<d>> \o <<"3","2","8","2","9","3","2","0","0","0","0","7","4">> : d \in Digits}
  \cup {<<>>, <<"1","2","3","4","5","6","7","8","9","0">>, <<"1","2","3","4","5","6","7","8","9","0","1","2","3","4","5","6","7">>, <<"7","3","2","8","2","9","3","2","0","0","0","0","7","a">>, <<"7","3","2","8","2"," ","9","3","2","0","0","0","0","7","4">>,
        <<"7","3","2","8","2","9","3","2","0","0","0","0"," ","4">>}

\* the arguments validate_postal_address is called on (the strings of the tests
\* and of the docstring)
PostalInputs ==
  {<<"1","2"," ","R","u","e"," ","d","e"," ","l","a"," ","P","a","i","x",","," ","7","5","0","0","2">>, <<"1","2"," ","R","u","e"," ","d","e"," ","l","a"," ","P","a","i","x",","," ","7","5","0","0","2"," ","P","a","r","i","s">>,
   <<"1","2",","," ","R","u","e"," ","d","e"," ","l","a"," ","P","a","i","x"," ","-"," ","7","5","0","0","2"," ","P","A","R","I","S">>, <<"1"," ","A","v","e","n","u","e"," ","d","e","s"," ","C","h","a","m","p","s","-","É","l","y","s","é","e","s",","," ","7","5","0","0","8"," ","P","a","r","i","s">>,
   <<"4","2",","," ","B","o","u","l","e","v","a","r","d"," ","H","a","u","s","s","m","a","n","n"," ","-"," ","7","5","0","0","9"," ","P","A","R","I","S">>, <<"8"," ","p","l","a","c","e"," ","d","u"," ","C","o","m","m","e","r","c","e"," ","4","4","0","0","0"," ","N","a","n","t","e","s">>,
   <<"1",","," ","A","v","e","n","u","e"," ","d","e","s"," ","C","h","a","m","p","s","-","É","l","y","s","é","e","s"," ","7","5","0","0","8">>, <<"1","2"," ","r","u","e"," ","d","e"," ","l","a"," ","P","a","i","x",","," ","7","5","0","0","2"," ","P","a","r","i","s">>,
   <<>>, <<"R","u","e"," ","d","e"," ","l","a"," ","P","a","i","x">>, <<"1","2",","," ","7","5","0","0","1">>, <<"1","2"," ","R","u","e"," ","d","e"," ","l","a"," ","P","a","i","x",","," ","7","5","0">>,
   <<"r","u","e"," ","d","e"," ","l","a"," ","P","a","i","x",","," ","7","5","0","0","2">>}

\* a text made of n occurrences of name separated by one space
Repeated(name, n) ==
  [i \in 1..(n * (Len(name) + 1) - 1) |-> (name \o <<" ">>)[((i - 1) % (Len(name) + 1)) + 1]]

MaxRepeat == 12

\* the arguments <<name, text>> validate_person_name is called on: a name in a
\* text made of its repetitions, and the names and the two texts of
\* test_validate_person_name
NameInputs ==
  LET context == <<"B","o","n","j","o","u","r",","," ","j","e"," ","m","'","a","p","p","e","l","l","e"," ","J","e","a","n"," ","D","u","p","o","n","t","."," ","J","e"," ","t","r","a","v","a","i","l","l","e"," ","a","v","e","c"," ","M","a","r","i","e"," ","M","a","r","t","i","n"," ","d","e"," ","l","'","é","q","u","i","p","e"," ","R","H","."," ","C","o","n","t","a","c","t","e","z","-","m","o","i"," ","a","u"," ","0","6","1","2","3","4","5","6","7","8",".">>
      prof_context == <<"L","e"," ","D","i","r","e","c","t","e","u","r"," ","M","."," ","P","i","e","r","r","e"," ","D","u","r","a","n","d"," ","a"," ","s","i","g","n","é"," ","l","e"," ","d","o","c","u","m","e","n","t","."," ","V","e","u","i","l","l","e","z"," ","c","o","n","t","a","c","t","e","r"," ","l","e"," ","s","e","r","v","i","c","e"," ","R","H",".">>
  IN      {<<<<"P","a","u","l"," ","V","a","l","e","r","y">>, Repeated(<<"P","a","u","l"," ","V","a","l","e","r","y">>, n)>> : n \in 1..MaxRepeat}
     \cup {<<name, context>> :
             name \in {<<"J","e","a","n"," ","D","u","p","o","n","t">>, <<"M","a","r","i","e"," ","M","a","r","t","i","n">>, <<>>, <<"J","P">>, <<"D","é","p","a","r","t","e","m","e","n","t"," ","R","H">>,
                       <<"O","G","F","A">>, <<"J","e","a","n","@","D","u","p","o","n","t">>}}
     \cup {<<<<"P","i","e","r","r","e"," ","D","u","r","a","n","d">>, text>> :
             text \in {prof_context, <<"P","i","e","r","r","e"," ","D","u","r","a","n","d"," ","h","a","b","i","t","e"," ","i","c","i">>, <<"L","e"," ","d","i","r","e","c","t","e","u","r"," ","P","i","e","r","r","e"," ","D","u","r","a","n","d">>,
                       <<"P","i","e","r","r","e"," ","D","u","r","a","n","d",","," ","r","e","s","p","o","n","s","a","b","l","e">>, <<"L","e"," ","c","h","e","f"," ","P","i","e","r","r","e"," ","D","u","r","a","n","d">>}}

\* the arguments <<text, entity>> is_likely_organizational_name is called on:
\* the sentence of the test, a name in a personal context, the same name in the
\* personal sentence and the signature of the test document, and a name with two
\* and with three occurrences of which one only stands near a role
OrgInputs ==
  LET \* 61 characters that belong to no word of the vocabularies
      padding == [i \in 1..61 |-> IF i % 2 = 1 THEN " " ELSE "a"]
  IN {<<<<"D","o","c","u","m","e","n","t"," ","r","é","d","i","g","é"," ","p","a","r"," ","M","a","r","i","e"," ","M","a","r","t","i","n",","," ","r","e","s","p","o","n","s","a","b","l","e"," ","d","u"," ","s","e","r","v","i","c","e"," ","R","H">>, <<"M","a","r","i","e"," ","M","a","r","t","i","n">>>>,
      <<<<"J","e"," ","m","'","a","p","p","e","l","l","e"," ","J","e","a","n"," ","D","u","p","o","n","t"," ","e","t"," ","j","e"," ","t","r","a","v","a","i","l","l","e"," ","p","o","u","r"," ","l","a"," ","s","o","c","i","é","t","é"," ","X","Y","Z",".">>, <<"J","e","a","n"," ","D","u","p","o","n","t">>>>,
      <<<<"J","e"," ","m","'","a","p","p","e","l","l","e"," ","J","e","a","n"," ","D","u","p","o","n","t"," ","e","t"," ","j","e"," ","t","r","a","v","a","i","l","l","e"," ","p","o","u","r"," ","l","a"," ","s","o","c","i","é","t","é"," ","X","Y","Z","."," ","M","o","n"," ","a","d","r","e","s","s","e"," ","e","s","t"," ","1","2"," ","r","u","e"," ","d","e"," ","l","a"," ","P","a","i","x",","," ","7","5","0","0","2"," ","P","a","r","i","s","."," ","C","o","r","d","i","a","l","e","m","e","n","t",","," ","J","e","a","n"," ","D","u","p","o","n","t"," ","D","i","r","e","c","t","e","u","r"," ","C","o","m","m","e","r","c","i","a","l">>,
        <<"J","e","a","n"," ","D","u","p","o","n","t">>>>,
      <<<<"L","e"," ","c","h","e","f"," ","L","u","c"," ","P","e","t","i","t">> \o padding \o <<" ","L","u","c"," ","P","e","t","i","t">>, <<"L","u","c"," ","P","e","t","i","t">>>>,
      <<<<"L","e"," ","c","h","e","f"," ","L","u","c"," ","P","e","t","i","t">> \o padding \o <<" ","L","u","c"," ","P","e","t","i","t">> \o padding \o <<" ","L","u","c"," ","P","e","t","i","t">>,
        <<"L","u","c"," ","P","e","t","i","t">>>>,
      <<<<"B","o","n","j","o","u","r"," ","L","u","c"," ","P","e","t","i","t">>, <<"A","n","n","e"," ","R","o","u","x">>>>,
      <<<<"L","u","c"," ","P","e","t","i","t"," ","e","s","t"," ","p","a","r","t","i">>, <<"L","u","c"," ","P","e","t","i","t">>>>}

\* what each validator returns on each of its arguments
ValidatorResults ==
  [validate_secu |-> [secu \in SecuInputs |-> validate_secu(secu)],
   validate_date |-> [date_str \in DateInputs |-> validate_date(date_str)],
   validate_phone |-> [phone \in PhoneInputs |-> validate_phone(phone)],
   validate_siret |-> [siret \in SiretInputs |-> validate_siret(siret)],
   validate_postal_address |-> [address \in PostalInputs |-> validate_postal_address(address)],
   validate_person_name |-> [arg \in NameInputs |-> validate_person_name(arg[1], arg[2])],
   is_likely_organizational_name |->
     [arg \in OrgInputs |-> is_likely_organizational_name(arg[1], arg[2])]]

\* validate_secu(secu) is called
ValidateSecu ==
  \E secu \in SecuInputs :
    /\ validation' = [fn |-> "validate_secu", args |-> <<secu>>, result |-> ValidatorResults.validate_secu[secu]]
    /\ UNCHANGED <<model_installed, nlp, pipelines, exclusion_lists, pc, call, all_results,
                   risk_analysis, batch, serviceVars>>

\* validate_date(date_str) is called
ValidateDate ==
  \E date_str \in DateInputs :
    /\ validation' = [fn |-> "validate_date", args |-> <<date_str>>,
                      result |-> ValidatorResults.validate_date[date_str]]
    /\ UNCHANGED <<model_installed, nlp, pipelines, exclusion_lists, pc, call, all_results,
                   risk_analysis, batch, serviceVars>>

\* validate_phone(phone) is called
ValidatePhone ==
  \E phone \in PhoneInputs :
    /\ validation' = [fn |-> "validate_phone", args |-> <<phone>>,
                      result |-> ValidatorResults.validate_phone[phone]]
    /\ UNCHANGED <<model_installed, nlp, pipelines, exclusion_lists, pc, call, all_results,
                   risk_analysis, batch, serviceVars>>

\* validate_siret(siret) is called
ValidateSiret ==
  \E siret \in SiretInputs :
    /\ validation' = [fn |-> "validate_siret", args |-> <<siret>>,
                      result |-> ValidatorResults.validate_siret[siret]]
    /\ UNCHANGED <<model_installed, nlp, pipelines, exclusion_lists, pc, call, all_results,
                   risk_analysis, batch, serviceVars>>

\* validate_postal_address(address) is called
ValidatePostalAddress ==
  \E address \in PostalInputs :
    /\ validation' = [fn |-> "validate_postal_address", args |-> <<address>>,
                      result |-> ValidatorResults.validate_postal_address[address]]
    /\ UNCHANGED <<model_installed, nlp, pipelines, exclusion_lists, pc, call, all_results,
                   risk_analysis, batch, serviceVars>>

\* validate_person_name(name, text) is called: the result is <<is_valid, confidence>>
ValidatePersonName ==
  \E arg \in NameInputs :
    /\ validation' = [fn |-> "validate_person_name", args |-> arg, result |-> ValidatorResults.validate_person_name[arg]]
    /\ UNCHANGED <<model_installed, nlp, pipelines, exclusion_lists, pc, call, all_results,
                   risk_analysis, batch, serviceVars>>

\* is_likely_organizational_name(text, entity) is called
IsLikelyOrganizationalName ==
  \E arg \in OrgInputs :
    /\ validation' = [fn |-> "is_likely_organizational_name", args |-> arg,
                      result |-> ValidatorResults.is_likely_organizational_name[arg]]
    /\ UNCHANGED <<model_installed, nlp, pipelines, exclusion_lists, pc, call, all_results,
                   risk_analysis, batch, serviceVars>>

NextValidators ==
  \/ ValidateSecu
  \/ ValidateDate
  \/ ValidatePhone
  \/ ValidateSiret
  \/ ValidatePostalAddress
  \/ ValidatePersonName
  \/ IsLikelyOrganizationalName

SpecValidators == Init /\ [][NextValidators]_vars

(***************************************************************************)
(* Background tasks (background_task.py 22-135, 299-321).  A task file     *)
(* holds JSON after a json.dump.  open(path, 'w') empties it; a dump into  *)
(* a file that another writer has filled since writes over that text, and  *)
(* leaves either its own JSON or, when its text is the shorter one, the    *)
(* rest of the other text after it.                                        *)
(***************************************************************************)
MaxTasks == 2

\* what create_task is called with: the type, what analyze_file does with the
\* files (see BatchFiles), and whether AnalysisStorage.save_analysis raises
TaskParams ==
  {[type |-> "directory_analysis", files |-> <<"result">>, save_fails |-> FALSE],
   [type |-> "directory_analysis", files |-> <<"none">>, save_fails |-> FALSE],
   [type |-> "directory_analysis", files |-> <<"result">>, save_fails |-> TRUE],
   [type |-> "files_analysis", files |-> <<"result">>, save_fails |-> FALSE],
   [type |-> "files_analysis", files |-> <<>>, save_fails |-> FALSE],
   [type |-> "unknown", files |-> <<>>, save_fails |-> FALSE]}

\* with open(task_path, 'w') as f
open_w(id) == [task_files EXCEPT ![id].exists = TRUE, ![id].content = "empty"]

\* json.dump(task_data, f) and the end of the with block
json_dump(id, task_data, content) ==
  [task_files EXCEPT ![id].content = content,
                     ![id].data = IF content = "json" THEN task_data ELSE @]

\* time passes
Tick ==
  /\ clock < MaxClock
  /\ clock' = clock + 1
  /\ UNCHANGED <<task_files, tasks, poll, coreVars, auth, errors, storage>>

\* create_task(task_type, params): the id is the second of the clock and the
\* file is opened for writing (lines 35-56); then the data is dumped, the
\* thread is started and the id returned (lines 57-67)
create_task(params) ==
  \/ /\ Len(tasks) < MaxTasks
     /\ tasks' = Append(tasks,
                        [id |-> clock, pc |-> "create", after |-> "", i |-> 0,
                         found |-> FALSE,
                         task_data |-> [owner |-> Len(tasks) + 1, params |-> params,
                                        status |-> "created", progress |-> 0,
                                        results |-> "null"]])
     /\ task_files' = open_w(clock)
     /\ UNCHANGED <<clock, poll, coreVars, auth, errors, storage>>
  \/ \E k \in 1..Len(tasks) :
       /\ tasks[k].pc = "create"
       /\ tasks[k].task_data.params = params
       /\ \E content \in IF task_files[tasks[k].id].content = "empty"
                         THEN {"json"} ELSE {"json", "corrupt"} :
            task_files' = json_dump(tasks[k].id, tasks[k].task_data, content)
       /\ tasks' = [tasks EXCEPT ![k].pc = "load"]
       /\ UNCHANGED <<clock, poll, coreVars, auth, errors, storage>>

\* _save_task_data(task_id, task_data) in thread k
save_task_data(k) ==
  \/ /\ tasks[k].pc = "save"
     /\ task_files' = open_w(tasks[k].id)
     /\ tasks' = [tasks EXCEPT ![k].pc = "dump"]
     /\ UNCHANGED <<clock, poll, coreVars, auth, errors, storage>>
  \/ /\ tasks[k].pc = "dump"
     /\ \E content \in IF task_files[tasks[k].id].content = "empty"
                       THEN {"json"} ELSE {"json", "corrupt"} :
          task_files' = json_dump(tasks[k].id, tasks[k].task_data, content)
     /\ tasks' = [tasks EXCEPT ![k].pc = tasks[k].after]
     /\ UNCHANGED <<clock, poll, coreVars, auth, errors, storage>>

\* _run_task(task_id) in thread k, around the analysis.  The file is loaded
\* and the status running saved (lines 90-103): json.load is outside the try
\* block, so a file without JSON ends the thread.  After the analysis the
\* final status is saved (lines 105-128): an unknown type and a failure of
\* save_analysis are exceptions, caught; without any result the analysis
\* returns {"error": ...}, which is stored as the result of a completed task.
run_task(k) ==
  \/ /\ tasks[k].pc = "load"
     /\ \E file \in {task_files[tasks[k].id]} :
          tasks' = [tasks EXCEPT
                      ![k].pc = IF ~file.exists THEN "done"
                                ELSE IF file.content /= "json" THEN "dead" ELSE "save",
                      ![k].after = "analyze",
                      ![k].task_data = IF file.exists /\ file.content = "json"
                                       THEN [file.data EXCEPT !.status = "running"]
                                       ELSE @]
     /\ UNCHANGED <<clock, task_files, poll, coreVars, auth, errors, storage>>
  \/ /\ tasks[k].pc = "analyze"
     /\ \E params \in {tasks[k].task_data.params} :
          /\ \/ tasks[k].i = Len(params.files)
             \/ params.type \notin {"directory_analysis", "files_analysis"}
          /\ \E raised \in {\/ params.type \notin {"directory_analysis", "files_analysis"}
                            \/ tasks[k].found /\ params.save_fails} :
               tasks' = [tasks EXCEPT
                           ![k].pc = "save",
                           ![k].after = "done",
                           ![k].task_data =
                             IF raised
                             THEN [@ EXCEPT !.status = "error"]
                             ELSE [@ EXCEPT !.status = "completed",
                                            !.progress = 100,
                                            !.results = IF tasks[k].found
                                                        THEN "report" ELSE "error"]]
     /\ UNCHANGED <<clock, task_files, poll, coreVars, auth, errors, storage>>

\* one turn of the loop of _analyze_directory or _analyze_files in thread k
\* (lines 168-186, 242-264): the file is analysed and the progress saved
analyze_step(k) ==
  /\ tasks[k].pc = "analyze"
  /\ \E params \in {tasks[k].task_data.params} :
       /\ params.type \in {"directory_analysis", "files_analysis"}
       /\ tasks[k].i < Len(params.files)
       /\ tasks' = [tasks EXCEPT
                      ![k].i = @ + 1,
                      ![k].found = @ \/ params.files[tasks[k].i + 1] = "result",
                      ![k].task_data.progress =
                        ((tasks[k].i + 1) * 100) \div Len(params.files),
                      ![k].pc = "save",
                      ![k].after = "analyze"]
  /\ UNCHANGED <<clock, task_files, poll, coreVars, auth, errors, storage>>

\* get_task_status(task_id): None when the file does not exist or when
\* json.load raises, else the data of the file
get_task_status(id) ==
  /\ poll' = [id |-> id,
              created |-> \E k \in 1..Len(tasks) : tasks[k].id = id /\ tasks[k].pc /= "create",
              shared |-> \E j, k \in 1..Len(tasks) : j /= k /\ tasks[j].id = id /\ tasks[k].id = id,
              result |-> IF ~task_files[id].exists \/ task_files[id].content /= "json"
                         THEN "None" ELSE task_files[id].data.status]
  /\ UNCHANGED <<clock, task_files, tasks, coreVars, auth, errors, storage>>

SpecTasks ==
  Init /\ [][
  \/ Tick
  \/ \E params \in TaskParams : create_task(params)
  \/ \E k \in 1..Len(tasks) : run_task(k)
  \/ \E k \in 1..Len(tasks) : save_task_data(k)
  \/ \E k \in 1..Len(tasks) : analyze_step(k)
  \/ \E id \in 0..MaxClock : get_task_status(id)
  ]_vars

\* a started thread keeps being scheduled, and a call of create_task that has
\* opened the file goes on to write it
SpecTasksLive ==
  /\ SpecTasks
  /\ \A k \in 1..MaxTasks :
       WF_vars(k <= Len(tasks) /\ (run_task(k) \/ save_task_data(k) \/ analyze_step(k)))
  /\ WF_vars(\E params \in TaskParams :
               (\E k \in 1..Len(tasks) : tasks[k].pc = "create") /\ create_task(params))

(***************************************************************************)
(* Authentication (auth.py 47-159).  Every browser session runs the script *)
(* of the application in a thread of its own; the methods load the JSON    *)
(* files, change the loaded copy and save it, without a lock.              *)
(***************************************************************************)
MaxTokens == 2

\* is_authenticated(session_token)
is_authenticated(session_token) ==
  /\ session_token /= 0
  /\ \E session \in auth.sessions : session.token = session_token

\* login(username, password) in app session s: the users are loaded and the
\* password checked (lines 69-73); the sessions are loaded (line 76); the
\* session is added and the sessions saved (lines 77-84)
login(s, username, password) ==
  \/ /\ auth.calls[s].pc \in {"idle", "returned"}
     /\ auth.issued < MaxTokens
     /\ auth' =
          IF username \in auth.users /\ password = "right"
          THEN [auth EXCEPT !.issued = @ + 1,
                            !.calls[s] = [op |-> "login", pc |-> "load_sessions",
                                          username |-> username, users |-> auth.users,
                                          sessions |-> {}, token |-> auth.issued + 1,
                                          result |-> FALSE]]
          ELSE [auth EXCEPT !.calls[s] = [op |-> "login", pc |-> "returned",
                                          username |-> username, users |-> auth.users,
                                          sessions |-> {}, token |-> 0, result |-> FALSE]]
     /\ UNCHANGED <<coreVars, clock, task_files, tasks, poll, errors, storage>>
  \/ /\ auth.calls[s].op = "login"
     /\ auth.calls[s].username = username
     /\ password = "right"
     /\ \/ /\ auth.calls[s].pc = "load_sessions"
           /\ auth' = [auth EXCEPT !.calls[s].sessions = auth.sessions,
                                   !.calls[s].pc = "save_sessions"]
        \/ /\ auth.calls[s].pc = "save_sessions"
           /\ auth' = [auth EXCEPT
                         !.sessions = auth.calls[s].sessions
                                        \union {[token |-> auth.calls[s].token,
                                                 username |-> username]},
                         !.calls[s].pc = "returned",
                         !.calls[s].result = TRUE]
     /\ UNCHANGED <<coreVars, clock, task_files, tasks, poll, errors, storage>>

\* delete_user(username) in app session s: the users are loaded and tested
\* (lines 143-149); the user is removed and the users saved (151-152); the
\* sessions are loaded (155); those of the user are removed and the sessions
\* saved (156-157)
delete_user(s, username) ==
  \/ /\ auth.calls[s].pc \in {"idle", "returned"}
     /\ auth' = [auth EXCEPT
                   !.calls[s] = [op |-> "delete_user",
                                 pc |-> IF username \notin auth.users \/ username = "admin"
                                        THEN "returned" ELSE "save_users",
                                 username |-> username, users |-> auth.users,
                                 sessions |-> {}, token |-> 0, result |-> FALSE]]
     /\ UNCHANGED <<coreVars, clock, task_files, tasks, poll, errors, storage>>
  \/ /\ auth.calls[s].op = "delete_user"
     /\ auth.calls[s].username = username
     /\ \/ /\ auth.calls[s].pc = "save_users"
           /\ auth' = [auth EXCEPT !.users = auth.calls[s].users \ {username},
                                   !.calls[s].pc = "load_sessions"]
        \/ /\ auth.calls[s].pc = "load_sessions"
           /\ auth' = [auth EXCEPT !.calls[s].sessions = auth.sessions,
                                   !.calls[s].pc = "save_sessions"]
        \/ /\ auth.calls[s].pc = "save_sessions"
           /\ auth' = [auth EXCEPT
                         !.sessions = {session \in auth.calls[s].sessions :
                                         session.username /= username},
                         !.calls[s].pc = "returned",
                         !.calls[s].result = TRUE]
     /\ UNCHANGED <<coreVars, clock, task_files, tasks, poll, errors, storage>>

SpecAuth ==
  Init /\ [][
  \/ \E s \in DOMAIN auth.calls : \E username \in {"admin", "alice", "bob"} :
       \E password \in {"right", "wrong"} : login(s, username, password)
  \/ \E s \in DOMAIN auth.calls : \E username \in {"admin", "alice", "bob"} :
       delete_user(s, username)
  ]_vars

(***************************************************************************)
(* The error summary (error_handler.py 49-122).  An error key, the type    *)
(* and the first 50 characters of the message, is a number here: the keys  *)
(* are numbered in the order of their first error.                         *)
(***************************************************************************)
MaxKeys == 11

MaxErrors == 12

\* log_error(error) with an error of the given key: the entry is written to
\* the log and _update_error_summary counts it, adds 1 to the key in
\* most_common_errors (a new key comes last in the dict), and keeps the first
\* 10 items of the dict sorted by count, greatest first
log_error(key) ==
  /\ errors.total_errors < MaxErrors
  /\ \E items \in {errors.most_common_errors} :
     \E counted \in {IF \E j \in 1..Len(items) : items[j][1] = key
                     THEN [j \in 1..Len(items) |->
                             IF items[j][1] = key THEN <<key, items[j][2] + 1>>
                             ELSE items[j]]
                     ELSE Append(items, <<key, 1>>)} :
     \E by_count \in {[j \in 1..Len(counted) |->
                         [k \in 1..Len(counted) |-> counted[j][2] > counted[k][2]]]} :
     \E ordered \in {SortedDesc(counted, by_count)} :
       errors' = [most_common_errors |->
                    SubSeq(ordered, 1, IF Len(ordered) < 10 THEN Len(ordered) ELSE 10),
                  total_errors |-> errors.total_errors + 1,
                  categories |-> [other |-> errors.categories.other + 1],
                  logged |-> IF key <= Len(errors.logged)
                             THEN [errors.logged EXCEPT ![key] = @ + 1]
                             ELSE Append(errors.logged, 1)]
  /\ UNCHANGED <<coreVars, clock, task_files, tasks, poll, auth, storage>>

SpecErrors ==
  Init /\ [][
    \E key \in 1..MaxKeys : key <= Len(errors.logged) + 1 /\ log_error(key)
  ]_vars

(***************************************************************************)
(* The stored analyses (storage.py 18-45, 79-90).  Background tasks and    *)
(* the script of the application call AnalysisStorage at the same time;    *)
(* the methods load metadata.json, change the loaded list and save it.     *)
(***************************************************************************)
MaxCalls == 3

\* save_analysis(df, name) as call c: a new id is drawn, the frame pickled and
\* the metadata loaded (lines 27-32); the entry is inserted in front, the list
\* saved and the id returned (lines 33-45)
save_analysis(c) ==
  \/ /\ c = Len(storage.calls) + 1
     /\ c <= MaxCalls
     /\ storage' = [storage EXCEPT
                      !.calls = Append(@, [op |-> "save_analysis", analysis_id |-> c,
                                           pc |-> "save", metadata |-> storage.metadata,
                                           result |-> FALSE])]
     /\ UNCHANGED <<coreVars, clock, task_files, tasks, poll, auth, errors>>
  \/ /\ c <= Len(storage.calls)
     /\ storage.calls[c].op = "save_analysis"
     /\ storage.calls[c].pc = "save"
     /\ storage' = [storage EXCEPT
                      !.metadata = <<storage.calls[c].analysis_id>> \o storage.calls[c].metadata,
                      !.calls[c].pc = "returned",
                      !.calls[c].result = TRUE]
     /\ UNCHANGED <<coreVars, clock, task_files, tasks, poll, auth, errors>>

\* delete_analysis(analysis_id) as call c: the metadata is loaded and the
\* entry looked up (lines 80-82); when there is one, the list without it is
\* saved (lines 83-88)
delete_analysis(c, analysis_id) ==
  \/ /\ c = Len(storage.calls) + 1
     /\ c <= MaxCalls
     /\ \E entry \in {\E j \in 1..Len(storage.metadata) : storage.metadata[j] = analysis_id} :
          storage' = [storage EXCEPT
                        !.calls = Append(@, [op |-> "delete_analysis",
                                             analysis_id |-> analysis_id,
                                             pc |-> IF entry THEN "save" ELSE "returned",
                                             metadata |-> storage.metadata,
                                             result |-> FALSE])]
     /\ UNCHANGED <<coreVars, clock, task_files, tasks, poll, auth, errors>>
  \/ /\ c <= Len(storage.calls)
     /\ storage.calls[c].op = "delete_analysis"
     /\ storage.calls[c].analysis_id = analysis_id
     /\ storage.calls[c].pc = "save"
     /\ storage' = [storage EXCEPT
                      !.metadata = SelectSeq(storage.calls[c].metadata,
                                             LAMBDA item : item /= analysis_id),
                      !.calls[c].pc = "returned",
                      !.calls[c].result = TRUE]
     /\ UNCHANGED <<coreVars, clock, task_files, tasks, poll, auth, errors>>

SpecStorage ==
  Init /\ [][
  \/ \E c \in 1..MaxCalls : save_analysis(c)
  \/ \E c \in 1..MaxCalls : \E analysis_id \in 1..MaxCalls : delete_analysis(c, analysis_id)
  ]_vars

(***************************************************************************)
(* Properties                                                              *)
(***************************************************************************)
Finished(t) == call[t].status \in {"returned", "raised"}

Returned(t) == call[t].status = "returned"

\* the values of a bucket
Values(items) == {items[k].value : k \in 1..Len(items)}

\* C1: every detection returned by detect_personal_data has a confidence of at
\* least the acceptance threshold of its bucket (emails 0.7, phones 0.7, dates
\* 0.5, secu 0.8, siret 0.8, postal addresses 0.7, IP addresses 0.7, names 0.4)
\* and of at most 1.0: a candidate scored below its threshold is not returned.
C1_AboveThreshold ==
  LET threshold == [emails |-> 70, phones |-> 70, dates |-> 50, secu |-> 80, siret |-> 80,
                    postal_addresses |-> 70, ip_addresses |-> 70, names |-> 40]
  IN \A t \in Threads :
       Returned(t) =>
         \A b \in DOMAIN call[t].result :
           \A k \in 1..Len(call[t].result[b]) :
             /\ call[t].result[b][k].confidence >= threshold[b]
             /\ call[t].result[b][k].confidence <= 100

\* the postal candidates of the template document, scored 0.65
TemplatePostalCandidates == PostalOf(Docs[2].text)

\* a call on the template document has returned: its postal candidate, scored
\* below 0.7, is not in the result, the other detections are
C1_Witness ==
  \E t \in Threads :
    /\ Returned(t) /\ call[t].doc = 2
    /\ TemplatePostalCandidates /= <<>>
    /\ call[t].result.postal_addresses = <<>>
    /\ call[t].result.emails /= <<>>

\* the score of a file as calculate_risk_scores reports it, if it reports it
InTier(list, result) == \E j \in 1..Len(list) : list[j].path = result.file_path

\* C2: calculate_risk_scores puts a file in the high tier iff its score is > 20,
\* in the medium tier iff 10 < score <= 20, in the low tier iff 0 < score <= 10,
\* and in no tier iff the score is 0 (so 20 is medium and 10 is low).
C2_Tiers ==
  risk_analysis.computed =>
    \A k \in 1..risk_analysis.total_analyzed :
      LET result == all_results[k]
          score == file_risk(result)
          above(n) == RatGt(score, Rat(n, 1))
          high == InTier(risk_analysis.high_risk_files, result)
          medium == InTier(risk_analysis.medium_risk_files, result)
          low == InTier(risk_analysis.low_risk_files, result)
      IN /\ high <=> above(2000)
         /\ medium <=> (above(1000) /\ ~above(2000))
         /\ low <=> (above(0) /\ ~above(1000))
         /\ ~(high \/ medium \/ low) <=> RatEq(score, Rat(0, 1))

\* a report holds a file of score exactly 20 in the medium tier and a file of
\* score exactly 10 in the low tier
C2_Witness ==
  /\ risk_analysis.computed
  /\ \E j \in 1..Len(risk_analysis.medium_risk_files) :
       RatEq(risk_analysis.medium_risk_files[j].score, Rat(2000, 1))
  /\ \E j \in 1..Len(risk_analysis.low_risk_files) :
       RatEq(risk_analysis.low_risk_files[j].score, Rat(1000, 1))

\* mean confidence of the detections of a type, times factor, times weight
Share(found, factor, weight) ==
  IF found = <<>> THEN Rat(0, 1) ELSE Rat(SumConfidence(found) * factor * weight, Len(found))

RECURSIVE SumShares(_, _, _, _)
SumShares(found, factor, weight, k) ==
  IF k = 0 THEN Rat(0, 1)
  ELSE RatAdd(SumShares(found, factor, weight, k - 1),
              Share(found[RiskTypes[k]], factor[RiskTypes[k]], weight[RiskTypes[k]]))

\* the records of all_results that analyze_file produced, with the detections
\* they were built from
AnalyzedRecords == {k \in 1..Len(all_results) : all_results[k].file_type = "text"}

DetectionsOf(k) == DetectTable[all_results[k].file_path.name][TRUE]

\* the contributions and the score of every analysed record follow factor and weight
SharesFollow(factor, weight) ==
  \A k \in AnalyzedRecords :
    /\ \A type \in DOMAIN weight :
         RatEq(Contribution(all_results[k], type),
               Share(DetectionsOf(k)[type], factor[type], weight[type]))
    /\ RatEq(file_risk(all_results[k]),
             SumShares(DetectionsOf(k), factor, weight, Len(RiskTypes)))

SpecWeights ==
  [secu |-> 10, emails |-> 5, phones |-> 5, names |-> 3, siret |-> 2,
   postal_addresses |-> 2, ip_addresses |-> 2]

\* C3 as stated: for a record produced by analyze_file, the contribution of each
\* data type to the score is the mean confidence of its detections times the
\* weight of the type (0 without detection), and the score is their sum.
C3_MeanTimesWeight == SharesFollow([type \in DOMAIN SpecWeights |-> 1], SpecWeights)

\* C3 amended: the contribution of each data type is the mean confidence times
\* the weight of the type times the factor analyze_file applies (3 for secu,
\* emails and phones, 2 for postal and IP addresses, 1 for names and siret).
C3_MeanTimesFactorTimesWeight ==
  SharesFollow([secu |-> 3, emails |-> 3, phones |-> 3, names |-> 1, siret |-> 1,
                postal_addresses |-> 2, ip_addresses |-> 2], SpecWeights)

\* a scored report covers an analysed file that holds e-mails and addresses
C3_Witness ==
  /\ risk_analysis.computed
  /\ \E k \in AnalyzedRecords :
       /\ k <= risk_analysis.total_analyzed
       /\ DetectionsOf(k).emails /= <<>>
       /\ DetectionsOf(k).postal_addresses /= <<>>
       /\ InTier(risk_analysis.high_risk_files, all_results[k])

\* C4: once the settings form has added a name to the excluded persons and
\* reloaded the lists, a call of detect made afterwards does not return it.
C4_AddedNameExcluded ==
  \A t \in Threads :
    (Returned(t) /\ \E k \in 1..Len(call[t].persons) : call[t].persons[k] = <<"J","e","a","n"," ","D","u","p","o","n","t">>)
      => <<"J","e","a","n"," ","D","u","p","o","n","t">> \notin Values(call[t].result.names)

\* C5: the language model is loaded at most once in the process.
C5_LoadedOnce == Len(pipelines) <= 1

\* what detect returns on each document when the recognizer tags nothing
NoEntityOf ==
  [doc \in {[Docs[d] EXCEPT !.ents = <<>>, !.ner_raises = FALSE] : d \in DocIds} |->
     detect_body(doc, TRUE)]

NoEntityTable ==
  [d \in DocIds |-> NoEntityOf[[Docs[d] EXCEPT !.ents = <<>>, !.ner_raises = FALSE]]]

\* C6: when the recognizer raises on a text, detect returns: the names bucket is
\* empty and the seven other buckets hold what they hold when the recognizer
\* tags no entity.
C6_RecognizerFailure ==
  \A t \in Threads :
    (Finished(t) /\ model_installed /\ Docs[call[t].doc].ner_raises)
      => /\ Returned(t)
         /\ call[t].result.names = <<>>
         /\ \A b \in DOMAIN call[t].result : call[t].result[b] = NoEntityTable[call[t].doc][b]

\* a call on the document the recognizer fails on has returned e-mails, a
\* number, an address and an IP address
C6_Witness ==
  \E t \in Threads :
    /\ Returned(t) /\ Docs[call[t].doc].ner_raises
    /\ call[t].result.emails /= <<>> /\ call[t].result.secu /= <<>>
    /\ call[t].result.postal_addresses /= <<>> /\ call[t].result.ip_addresses /= <<>>

\* C7: on a text that is empty or shorter than 3 characters, detect returns
\* eight empty buckets and does not raise, in every state of the process.
C7_ShortText ==
  \A t \in Threads :
    (Finished(t) /\ Len(Docs[call[t].doc].text) < 3)
      => Returned(t) /\ call[t].result = EmptyResults

\* a document a batch is expected to report: its analysis gave no record and
\* it is not a temporary file
Failed(file) == ~file.temp /\ file.outcome /= "result"

\* C8: a batch scan analyses every document whatever happens to the others, and
\* its result marks every document whose analysis failed.
C8_BatchReportsFailures ==
  batch.status \in {"returned", "aborted"} =>
    /\ batch.i = Len(batch.files)
    /\ \A k \in 1..Len(batch.files) :
         Failed(batch.files[k]) =>
           \E j \in 1..Len(batch.output.error_files) : batch.output.error_files[j] = k

\* C9: two calls of detect on the same text under the same exclusion lists end
\* the same way and return the same detections.
C9_Idempotent ==
  \A t1, t2 \in Threads :
    (Finished(t1) /\ Finished(t2) /\ call[t1].doc = call[t2].doc
       /\ call[t1].persons = call[t2].persons)
      => call[t1].status = call[t2].status /\ call[t1].result = call[t2].result

\* pairs of documents that differ by one template term: appended at the end of
\* the text, or inserted in it
TemplatePairs ==
  {[plain |-> 1, template |-> 2, appended |-> TRUE],
   [plain |-> 3, template |-> 4, appended |-> FALSE]}

\* no detection of the given buckets is scored higher with the term than without
NotHigher(with, without, buckets) ==
  \A b \in buckets :
    \A i \in 1..Len(with[b]) : \A j \in 1..Len(without[b]) :
      with[b][i].value = without[b][j].value
        => with[b][i].confidence <= without[b][j].confidence

\* the penalty holds on every pair for the buckets given for it
PenaltyHolds(buckets) ==
  \A p \in TemplatePairs : \A t1, t2 \in Threads :
    (Returned(t1) /\ Returned(t2) /\ call[t1].doc = p.plain /\ call[t2].doc = p.template)
      => NotHigher(call[t2].result, call[t1].result, buckets[p])

\* C10 as stated: of two documents that differ only by a template term, the one
\* with the term scores no detection higher than the other, whatever the type.
C10_TemplatePenalty == PenaltyHolds([p \in TemplatePairs |-> DOMAIN EmptyResults])

\* C10 amended: of two documents that differ only by a template term, the one
\* with the term scores no detection other than a name higher; nor a name,
\* when the term is appended at the end of the text.
C10_TemplatePenaltyButNames ==
  PenaltyHolds([p \in TemplatePairs |-> IF p.appended THEN DOMAIN EmptyResults
                                         ELSE DOMAIN EmptyResults \ {"names"}])

\* both documents of a pair have been analysed and the e-mail of the one with
\* the term is scored lower
C10_Witness ==
  \E p \in TemplatePairs : \E t1, t2 \in Threads :
    /\ Returned(t1) /\ Returned(t2) /\ call[t1].doc = p.plain /\ call[t2].doc = p.template
    /\ ~p.appended
    /\ call[t2].result.emails /= <<>>
    /\ ~NotHigher(call[t1].result, call[t2].result, {"emails"})

(***************************************************************************)
(* Properties of the validators                                            *)
(***************************************************************************)
\* C11: detect on a non-template text that holds one external e-mail, one
\* national phone number in pairs of digits, one postal address, one IPv4
\* address and one 15-digit national number with a correct key returns exactly
\* one entry in each of the emails, phones, postal_addresses, ip_addresses and
\* secu buckets, each at or above the threshold of its bucket.  (Document 9 is
\* that text.)
C11_EndToEnd ==
  \A t \in Threads :
    (Returned(t) /\ call[t].doc = 9) =>
      \A b \in {"emails", "phones", "postal_addresses", "ip_addresses", "secu"} :
        /\ Len(call[t].result[b]) = 1
        /\ call[t].result[b][1].confidence >= confidence_thresholds[b]

\* the direct call the state holds is a call of fn
Called(fn) == validation.fn = fn

IsDigits(s) == \A i \in 1..Len(s) : s[i] \in Digits

\* C12: validate_secu on 15 digits that start with 1, 2 or 3 is true iff the
\* last two digits, read as a number, are 97 - (first 13 digits mod 97); on 13
\* digits that start with 1, 2 or 3 it is true; on anything else it is false.
C12_SecuChecksum ==
  Called("validate_secu") =>
    LET secu == validation.args[1]
        national == IsDigits(secu) /\ secu /= <<>> /\ secu[1] \in {"1", "2", "3"}
    IN validation.result =
         (IF national /\ Len(secu) = 15
          THEN IntMod(SubSeq(secu, 14, 15), 100, 0) = 97 - IntMod(SubSeq(secu, 1, 13), 97, 0)
          ELSE national /\ Len(secu) = 13)

LeapYear(y) == y % 4 = 0 /\ (y % 100 /= 0 \/ y % 400 = 0)

DaysInMonth(m, y) ==
  IF m = 2 THEN (IF LeapYear(y) THEN 29 ELSE 28)
  ELSE IF m \in {4, 6, 9, 11} THEN 30 ELSE 31

\* C13: validate_date is true for every DD<sep>MM<sep>YYYY that is a date of the
\* Gregorian calendar with a year in 1900..2025 (29 February of leap years
\* included), and false when the day exceeds the number of days of the month.
C13_RealDates ==
  (Called("validate_date") /\ Len(validation.args[1]) = 10) =>
    LET date_str == validation.args[1]
        day == IntMod(SubSeq(date_str, 1, 2), 100, 0)
        month == IntMod(SubSeq(date_str, 4, 5), 100, 0)
        year == IntMod(SubSeq(date_str, 7, 10), 10000, 0)
    IN /\ (/\ month \in 1..12
           /\ year \in 1900..2025
           /\ day \in 1..DaysInMonth(month, year)) => validation.result
       /\ (month \in 1..12 /\ day > DaysInMonth(month, year)) => ~validation.result

\* a phone number once spaces, dots, dashes and parentheses are stripped
Stripped(phone) == SelectSeq(phone, LAMBDA c : c \notin {" ", ".", "-", "(", ")"})

\* nine digits of which the first is 1-9, after the prefix of p characters
NineDigitsAfter(number, p) ==
  /\ Len(number) = p + 9
  /\ IsDigits(SubSeq(number, p + 1, p + 9))
  /\ number[p + 1] /= "0"

\* C14: validate_phone is true for every string that, once stripped, is +33 or
\* 0033 followed by nine digits of which the first is 1-9, and for the variants
\* of both that keep the trunk prefix 0 before those nine digits.
C14_International ==
  Called("validate_phone") =>
    LET number == Stripped(validation.args[1])
    IN (\E prefix \in {<<"+","3","3">>, <<"0","0","3","3">>, <<"+","3","3","0">>, <<"0","0","3","3","0">>} :
          StartsWith(number, prefix) /\ NineDigitsAfter(number, Len(prefix)))
         => validation.result

\* C15: validate_phone is false for a national number of 10 digits that starts
\* with 05, for a national number that is one digit too short, and for a
\* string that holds a letter.
C15_Rejected ==
  Called("validate_phone") =>
    LET number == Stripped(validation.args[1])
    IN (\/ Len(number) = 10 /\ IsDigits(number) /\ StartsWith(number, <<"0","5">>)
        \/ Len(number) = 9 /\ IsDigits(number) /\ StartsWith(number, <<"0">>)
        \/ \E i \in 1..Len(number) : number[i] \in AsciiLetters)
         => ~validation.result

\* the value of a decimal digit
DigitValue(c) == CHOOSE d \in 0..9 : ToString(d) = c

\* the Luhn sum of the last n digits of s: from the rightmost digit, every
\* second digit is doubled, and reduced by 9 when the double exceeds 9
RECURSIVE LuhnSum(_, _)
LuhnSum(s, n) ==
  IF n = 0 THEN 0
  ELSE LET d == DigitValue(s[Len(s) - n + 1])
           doubled == IF 2 * d > 9 THEN 2 * d - 9 ELSE 2 * d
       IN (IF n % 2 = 0 THEN doubled ELSE d) + LuhnSum(s, n - 1)

\* C16: on 14 decimal digits validate_siret is true iff the Luhn sum is 0 modulo
\* 10, so that a valid number with its last digit replaced by another digit is
\* refused; a string that is not 14 characters long or holds a non-digit is
\* refused.
C16_Luhn ==
  Called("validate_siret") =>
    LET siret == validation.args[1]
    IN /\ validation.result = (/\ Len(siret) = 14
                               /\ IsDigits(siret)
                               /\ LuhnSum(siret, 14) % 10 = 0)
       /\ validation.result =>
            \A other \in SiretInputs :
              (/\ Len(other) = 14
               /\ SubSeq(other, 1, 13) = SubSeq(siret, 1, 13)
               /\ other[14] \in Digits \ {siret[14]}) => ~ValidatorResults.validate_siret[other]

\* validate_siret was called on a valid number and accepted it
C16_Witness ==
  validation = [fn |-> "validate_siret", args |-> <<<<"7","3","2","8","2","9","3","2","0","0","0","0","7","4">>>>, result |-> TRUE]

\* C17: validate_postal_address accepts an address made of a house number, a
\* street name and a 5-digit postal code also when a comma follows the house
\* number, and refuses "12, 75001", which has no street name.
C17_CommaAfterNumber ==
  Called("validate_postal_address") =>
    /\ validation.args[1] \in {<<"1","2",","," ","R","u","e"," ","d","e"," ","l","a"," ","P","a","i","x"," ","-"," ","7","5","0","0","2"," ","P","A","R","I","S">>,
                               <<"4","2",","," ","B","o","u","l","e","v","a","r","d"," ","H","a","u","s","s","m","a","n","n"," ","-"," ","7","5","0","0","9"," ","P","A","R","I","S">>,
                               <<"1",","," ","A","v","e","n","u","e"," ","d","e","s"," ","C","h","a","m","p","s","-","É","l","y","s","é","e","s"," ","7","5","0","0","8">>} => validation.result
    /\ validation.args[1] = <<"1","2",","," ","7","5","0","0","1">> => ~validation.result

\* a name of two words, each a capital letter followed by lower-case letters
TwoCapitalisedWords(name) ==
  /\ Len(Split(name)) = 2
  /\ \A k \in 1..2 :
       LET word == Split(name)[k]
       IN /\ word[1] \in AsciiUpper
          /\ \A i \in 2..Len(word) : word[i] \in AsciiLower

\* C18: validate_person_name reports a two-word, correctly capitalised name
\* that is not excluded as valid also when the name stands in a professional
\* context (here a text of at most 100 characters that holds the name, at most
\* three times, and professional vocabulary): the context lowers the
\* confidence only.
C18_ProfessionalContext ==
  Called("validate_person_name") =>
    LET name == validation.args[1]
        text == validation.args[2]
    IN (/\ TwoCapitalisedWords(name)
        /\ ~AnyIn([k \in 1..Len(EXCLUDED_PERSONS) |-> Lower(EXCLUDED_PERSONS[k])], Lower(name))
        /\ Len(text) <= 100
        /\ Cardinality(Occurrences(Lower(text), Lower(name))) \in 1..3
        /\ AnyIn(PROFESSIONAL_CONTEXT, Lower(text)))
         => validation.result[1]

\* the confidence of a two-word capitalised name in a text that holds nothing
\* but n occurrences of it, when the penalty of n occurrences is penalty[n]
RepeatedNameScored(penalty) ==
  Called("validate_person_name") =>
    \A n \in 1..MaxRepeat :
      (/\ TwoCapitalisedWords(validation.args[1])
       /\ validation.args[2] = Repeated(validation.args[1], n))
        => validation.result[2] = 50 + 10 + 5 + 5 - penalty[n]

\* C19 as stated: the repetition penalty is 0 up to 3 occurrences and
\* 0.05 x (occurrences - 3), capped at 0.5, beyond.
C19_PenaltyBeyondThree ==
  RepeatedNameScored([n \in 1..MaxRepeat |->
                        IF n <= 3 THEN 0 ELSE IF 5 * (n - 3) < 50 THEN 5 * (n - 3) ELSE 50])

\* C19, amended: the repetition penalty is 0 up to 3 occurrences and
\* 0.05 x occurrences, capped at 0.5, beyond.
C19_PenaltyOfOccurrences ==
  RepeatedNameScored([n \in 1..MaxRepeat |->
                        IF n <= 3 THEN 0 ELSE IF 5 * n < 50 THEN 5 * n ELSE 50])

\* validate_person_name was called on a name that occurs 4 times, and on one
\* that occurs 10 times: the penalties are 0.20 and the cap 0.50
C19_Witness ==
  \/ /\ Called("validate_person_name")
     /\ validation.args[2] = Repeated(validation.args[1], 4)
     /\ validation.result = <<TRUE, 50>>
  \/ /\ Called("validate_person_name")
     /\ validation.args[2] = Repeated(validation.args[1], 10)
     /\ validation.result = <<FALSE, 20>>

\* the job-title and role vocabulary
RoleVocabulary ==
  <<<<"d","i","r","e","c","t","e","u","r">>, <<"d","i","r","e","c","t","r","i","c","e">>, <<"r","e","s","p","o","n","s","a","b","l","e">>, <<"c","h","e","f">>, <<"t","e","c","h","n","i","c","i","e","n">>,
    <<"i","n","f","o","r","m","a","t","i","q","u","e">>, <<"r","é","f","é","r","e","n","t">>, <<"c","h","a","r","g","é"," ","d","e">>, <<"s","e","r","v","i","c","e">>, <<"d","é","p","a","r","t","e","m","e","n","t">>,
    <<"p","ô","l","e">>, <<"l","'","é","q","u","i","p","e">>, <<"s","i","g","n","a","t","u","r","e">>, <<"c","o","n","t","a","c","t">>, <<"c","o","o","r","d","o","n","n","é","e","s">>, <<"a","d","j","o","i","n","t">>,
    <<"a","d","m","i","n","i","s","t","r","a","t","i","f">>, <<"c","o","n","s","e","i","l","l","e","r">>, <<"m","a","n","a","g","e","r">>, <<"g","e","s","t","i","o","n">>, <<"g","e","s","t","i","o","n","n","a","i","r","e">>,
    <<"a","s","s","i","s","t","a","n","t">>>>

\* the offsets of the occurrences of entity in text of which the window of 50
\* characters before and after holds role vocabulary
NearRole(text, entity) ==
  {i \in Occurrences(Lower(text), Lower(entity)) :
     \E from \in {IF i > 50 THEN i - 50 ELSE 0} :
     \E to \in {IF i + Len(entity) + 50 < Len(text) THEN i + Len(entity) + 50 ELSE Len(text)} :
       AnyIn(RoleVocabulary, Lower(Slice(text, from, to)))}

OfficialFormula(text, entity) ==
  \/ \E before \in {<<"m","."," ">>, <<"m","r"," ">>, <<"m","m","e"," ">>, <<"m","o","n","s","i","e","u","r"," ">>, <<"m","a","d","a","m","e"," ">>} :
       Contains(Lower(text), before \o Lower(entity))
  \/ \E after \in {<<","," ","d","i","r","e","c","t","e","u","r">>, <<","," ","r","e","s","p","o","n","s","a","b","l","e">>, <<" ","(","d","i","r","e","c","t","e","u","r">>, <<" ","(","r","e","s","p","o","n","s","a","b","l","e">>,
                   <<" ","-"," ","d","i","r","e","c","t","e","u","r">>, <<" ","-"," ","r","e","s","p","o","n","s","a","b","l","e">>} :
       Contains(Lower(text), Lower(entity) \o after)
  \/ \E i \in Occurrences(Lower(text), Lower(entity)) :
     \E rest \in {Strip(Slice(Lower(text), i + Len(entity), Len(text)))} :
     \E word \in {<<"e","s","t">>, <<"a"," ","é","t","é"," ","n","o","m","m","é">>, <<"o","c","c","u","p","e">>, <<"e","n"," ","c","h","a","r","g","e">>, <<":">>} :
       StartsWith(rest, word)

\* C21: is_likely_organizational_name classifies a name through the count of
\* its occurrences only when more than half of them have role vocabulary within
\* 50 characters: a name of which at most half of the occurrences do, with no
\* honorific before it and no official formula after it, is not organizational;
\* so "Jean Dupont", once in a personal sentence and once in a signature above
\* a job title.
C21_MoreThanHalf ==
  Called("is_likely_organizational_name") =>
    \E text \in {validation.args[1]} : \E entity \in {validation.args[2]} :
      (/\ 2 * Cardinality(NearRole(text, entity))
            <= Cardinality(Occurrences(Lower(text), Lower(entity)))
       /\ ~OfficialFormula(text, entity)) => ~validation.result

\* the records the latest report was computed from: all_results only grows
Given == SubSeq(all_results, 1, risk_analysis.total_analyzed)

\* the risk score of a record: the sum over the data types of the stored risk
\* of the type times the weight of the type
RECURSIVE WeightedSum(_, _)
WeightedSum(record, k) ==
  IF k = 0 THEN Rat(0, 1)
  ELSE RatAdd(WeightedSum(record, k - 1),
              Rat(record.risk[RiskTypes[k]].n * SpecWeights[RiskTypes[k]],
                  record.risk[RiskTypes[k]].d))

GivenScores == [k \in 1..Len(Given) |-> WeightedSum(Given[k], Len(RiskTypes))]

NonIncreasing(list) ==
  \A j \in 1..(Len(list) - 1) : ~RatGt(list[j + 1].score, list[j].score)

\* list holds the records of which the score lies in the tier, in the order given
InGivenOrder(list, in_tier) ==
  \E given \in {Given} : \E scores \in {GivenScores} :
    /\ Len(list) = Cardinality({k \in 1..Len(given) : in_tier[k]})
    /\ \E f \in [1..Len(list) -> 1..Len(given)] :
         /\ \A j \in 1..Len(list) :
              /\ in_tier[f[j]]
              /\ list[j].path = given[f[j]].file_path
              /\ RatEq(list[j].score, scores[f[j]])
         /\ \A j \in 1..(Len(list) - 1) : f[j] < f[j + 1]

\* C22: in the report of calculate_risk_scores the high-risk list and the
\* medium-risk list are sorted by non-increasing score, and the low-risk list
\* holds the files of score in ]0, 10] in the order in which they were given.
C22_SortedTiers ==
  risk_analysis.computed =>
    /\ NonIncreasing(risk_analysis.high_risk_files)
    /\ NonIncreasing(risk_analysis.medium_risk_files)
    /\ \E scores \in {GivenScores} :
         InGivenOrder(risk_analysis.low_risk_files,
                      [k \in 1..Len(scores) |->
                         RatGt(scores[k], Rat(0, 1)) /\ ~RatGt(scores[k], Rat(1000, 1))])

\* a report of which the medium-risk list holds two files, the greater first,
\* that were given the smaller first
C22_Witness ==
  /\ risk_analysis.computed
  /\ Len(risk_analysis.medium_risk_files) = 2
  /\ RatGt(risk_analysis.medium_risk_files[1].score, risk_analysis.medium_risk_files[2].score)
  /\ risk_analysis.medium_risk_files[1].path = all_results[2].file_path
  /\ risk_analysis.medium_risk_files[2].path = all_results[1].file_path

RECURSIVE RatSum(_)
RatSum(rats) == IF rats = <<>> THEN Rat(0, 1) ELSE RatAdd(Head(rats), RatSum(Tail(rats)))

RECURSIVE SumCounts(_)
SumCounts(table) == IF table = <<>> THEN 0 ELSE Head(table)[2] + SumCounts(Tail(table))

\* the number of entries of list that name path
Listed(list, path) == Cardinality({j \in 1..Len(list) : list[j].path = path})

ReturnedTasks == {k \in 1..Len(tasks) : tasks[k].pc /= "create"}

\* C23: get_task_status(id) returns None only when no task with that id
\* exists: a poll for a task that create_task has written and returned gets
\* the data of the task, also while the thread of the task rewrites the file.
\* Stated for the ids that a single task has.
C23_PollReturnsData == poll.result = "None" => ~poll.created \/ poll.shared

\* C27: two calls of create_task return different task ids, also within the
\* same second of the clock, so that no task file has two tasks writing it.
C27_DistinctIds ==
  \A j \in ReturnedTasks : \A k \in ReturnedTasks : j /= k => tasks[j].id /= tasks[k].id

\* the moves of a stored status that the life of one task allows
StatusMove(old, new) ==
  \/ new = old
  \/ old = "absent" /\ new = "created"
  \/ old = "created" /\ new = "running"
  \/ old = "running" /\ new \in {"completed", "error"}

\* C26: the status stored for a task id only moves created -> running ->
\* completed or created -> running -> error, a completed or error status
\* never changes again, and a completed status is stored with progress 100
\* and with results.
C26_StatusMoves ==
  [][\A id \in 0..MaxClock :
       /\ StatusMove(task_files[id].data.status, task_files'[id].data.status)
       /\ task_files'[id].data.status = "completed"
          => task_files'[id].data.progress = 100 /\ task_files'[id].data.results /= "null"]_vars

\* C28: every task whose file create_task has written eventually has the
\* status completed or error stored for it, whatever its type, the results of
\* its files and the outcome of saving the analysis.
C28_TasksEnd ==
  \A k \in 1..MaxTasks :
    (k \in ReturnedTasks)
      ~> /\ k \in ReturnedTasks
         /\ \E file \in {task_files[tasks[k].id]} :
              /\ file.content = "json"
              /\ file.data.owner = k
              /\ file.data.status \in {"completed", "error"}

\* the app sessions in which delete_user(username) has returned success
Deleted(username) ==
  {s \in DOMAIN auth.calls :
     /\ auth.calls[s].op = "delete_user" /\ auth.calls[s].pc = "returned"
     /\ auth.calls[s].username = username /\ auth.calls[s].result}

\* C24: after delete_user(u) has returned success no stored session refers to
\* u and no token issued to u is authenticated, however the call interleaves
\* with login(u) calls of other app sessions; delete_user("admin") fails and
\* leaves admin among the users.
C24_NoSessionOfDeleted ==
  /\ \A username \in {"alice", "bob"} :
       Deleted(username) /= {}
         => /\ \A session \in auth.sessions : session.username /= username
            /\ \A s \in DOMAIN auth.calls :
                 auth.calls[s].op = "login" /\ auth.calls[s].username = username
                   => ~is_authenticated(auth.calls[s].token)
  /\ Deleted("admin") = {}
  /\ "admin" \in auth.users

\* the keys of most_common_errors
ListedKeys == {errors.most_common_errors[j][1] : j \in 1..Len(errors.most_common_errors)}

\* C25: after any sequence of log_error calls most_common_errors holds the at
\* most 10 keys with the highest counts among all errors logged so far, each
\* with its true count: every logged key is listed while there are at most
\* 10, and no key left out has been logged more often than a listed one.
C25_MostCommon ==
  /\ Cardinality(ListedKeys) = Len(errors.most_common_errors)
  /\ Len(errors.most_common_errors)
       = IF Len(errors.logged) < 10 THEN Len(errors.logged) ELSE 10
  /\ \A j \in 1..Len(errors.most_common_errors) :
       \E item \in {errors.most_common_errors[j]} :
         /\ item[1] \in 1..Len(errors.logged)
         /\ item[2] = errors.logged[item[1]]
         /\ \A key \in 1..Len(errors.logged) :
              key \notin ListedKeys => errors.logged[key] <= item[2]

\* C29: every analysis id that save_analysis has returned has an entry in the
\* stored metadata as long as delete_analysis has not been called for it,
\* however the calls of save_analysis and delete_analysis interleave.
C29_SavedStaysListed ==
  \A c \in 1..Len(storage.calls) :
    \E saved \in {storage.calls[c]} :
      /\ saved.op = "save_analysis"
      /\ saved.pc = "returned"
      /\ \A d \in 1..Len(storage.calls) :
           ~(storage.calls[d].op = "delete_analysis"
               /\ storage.calls[d].analysis_id = saved.analysis_id)
      => \E j \in 1..Len(storage.metadata) : storage.metadata[j] = saved.analysis_id
====
